---- MODULE Spec2Model ----
(***************************************************************************)
(* Model of the SRD spell extractor (src/spell_data/srd_extractor.py) and  *)
(* of the Spell record (src/spell.py).                                     *)
(*                                                                         *)
(* Text is modelled character by character: a Python str is a sequence of  *)
(* one-character strings, so that the regular expressions, the splits and  *)
(* the substring tests of the code are computed and not assumed.           *)
(* Positions are 1-based: model position p is Python offset p - 1, and the *)
(* "end" of a match is the position of the first character after it.       *)
(*                                                                         *)
(* An intermediate value that the code keeps in a local variable is passed *)
(* on as the parameter of the operator that models the following lines.    *)
(***************************************************************************)
EXTENDS Integers, Sequences, FiniteSets, TLC

\* ------------------------------------------------------------------ text

\* Stands for the single code point U+2022 (the bullet of line 137).
Bullet == "U+2022"
NoChar == ""

LowerCase ==
    <<"a", "b", "c", "d", "e", "f", "g", "h", "i", "j", "k", "l", "m",
      "n", "o", "p", "q", "r", "s", "t", "u", "v", "w", "x", "y", "z">>
UpperCase ==
    <<"A", "B", "C", "D", "E", "F", "G", "H", "I", "J", "K", "L", "M",
      "N", "O", "P", "Q", "R", "S", "T", "U", "V", "W", "X", "Y", "Z">>
Digits == <<"0", "1", "2", "3", "4", "5", "6", "7", "8", "9">>

Range(f) == {f[i] : i \in DOMAIN f}
IsLower(c) == c \in Range(LowerCase)
IsUpper(c) == c \in Range(UpperCase)
IsDigit(c) == c \in Range(Digits)
\* \w of the re module on the characters the model uses
IsWord(c) == IsLower(c) \/ IsUpper(c) \/ IsDigit(c) \/ c = "_"
IsSpace(c) == c \in {" ", "\n", "\t", "\r"}
IndexIn(f, c) == CHOOSE i \in DOMAIN f : f[i] = c
ToUpper(c) == IF IsLower(c) THEN UpperCase[IndexIn(LowerCase, c)] ELSE c
ToLower(c) == IF IsUpper(c) THEN LowerCase[IndexIn(UpperCase, c)] ELSE c
DigitValue(c) == IndexIn(Digits, c) - 1

Min(S) == CHOOSE x \in S : \A y \in S : x <= y
Max(S) == CHOOSE x \in S : \A y \in S : x >= y

At(s, i) == IF i >= 1 /\ i <= Len(s) THEN s[i] ELSE NoChar
\* lit occurs in s at position i
StartsAt(lit, s, i) ==
    /\ i >= 1
    /\ i + Len(lit) - 1 <= Len(s)
    /\ \A k \in 1..Len(lit) : s[i + k - 1] = lit[k]
\* Python: lit in s
Contains(lit, s) == \E i \in 1..(Len(s) + 1) : StartsAt(lit, s, i)
\* Python: s.find(lit) (1-based; 0 when absent)
Find(lit, s) ==
    IF Contains(lit, s)
    THEN Min({i \in 1..(Len(s) + 1) : StartsAt(lit, s, i)})
    ELSE 0
\* Python: s.split(sep)[0]
SplitFirst(s, sep) ==
    IF Find(sep, s) = 0 THEN s ELSE SubSeq(s, 1, Find(sep, s) - 1)
\* Python: sep.join(s.split(sep)[1:]), the text after the first sep
AfterFirst(s, sep) ==
    IF Find(sep, s) = 0 THEN <<>>
    ELSE SubSeq(s, Find(sep, s) + Len(sep), Len(s))
\* Python: s.split(sep)[1]
SplitSecond(s, sep) == SplitFirst(AfterFirst(s, sep), sep)

\* Python: s.strip()
StripTo(s, keep) ==
    IF keep = {} THEN <<>> ELSE SubSeq(s, Min(keep), Max(keep))
Strip(s) == StripTo(s, {i \in 1..Len(s) : ~IsSpace(s[i])})

\* Python: s.title(): a cased character is upper-cased after an uncased one
\* (or at the start) and lower-cased after a cased one.
IsCased(c) == IsLower(c) \/ IsUpper(c)
Title(s) ==
    [i \in 1..Len(s) |->
        IF IsCased(At(s, i - 1)) THEN ToLower(s[i]) ELSE ToUpper(s[i])]

\* Python: s[-2:]
LastTwo(s) == IF Len(s) <= 2 THEN s ELSE SubSeq(s, Len(s) - 1, Len(s))
\* Python: s[:-1]
DropLast(s) == IF Len(s) = 0 THEN s ELSE SubSeq(s, 1, Len(s) - 1)

\* Python: int(s) of a string of decimal digits
RECURSIVE ParseInt(_)
ParseInt(s) ==
    IF Len(s) = 0 THEN 0
    ELSE 10 * ParseInt(SubSeq(s, 1, Len(s) - 1)) + DigitValue(s[Len(s)])
\* Python: str(n) of a non-negative int
RECURSIVE FormatInt(_)
FormatInt(n) ==
    IF n < 10 THEN <<Digits[n + 1]>>
    ELSE Append(FormatInt(n \div 10), Digits[(n % 10) + 1])
\* Python: s.replace(',', '')
RemoveCommas(s) == SelectSeq(s, LAMBDA c : c # ",")

\* first position at or after i whose character fails Ok (Len(s) + 1 when
\* the run reaches the end): the end of a greedy run of a character class
RunEnd(s, i, Ok(_, _)) ==
    Min({j \in i..(Len(s) + 1) : j = Len(s) + 1 \/ ~Ok(s, j)})
WordAt(s, j) == IsWord(s[j])
DigitAt(s, j) == IsDigit(s[j])
NotNewlineAt(s, j) == s[j] # "\n"
\* \b at position i: exactly one of the characters around it is a word one
IsBoundary(s, i) == IsWord(At(s, i - 1)) # IsWord(At(s, i))

NoMatch == [found |-> FALSE]
\* Pattern.search(s, pos): the match at the least position at or after pos
FirstHit(s, hits, MatchAt(_, _)) ==
    IF hits = {} THEN NoMatch ELSE MatchAt(s, Min(hits))
SearchFrom(s, pos, MatchAt(_, _)) ==
    FirstHit(s, {i \in pos..Len(s) : MatchAt(s, i).found}, MatchAt)
\* an optional character c at position p: the position after it
Skip(s, p, c) == IF At(s, p) = c THEN p + 1 ELSE p

\* ------------------------------------------------------------ literals

\* **Duration:**
DurationMarker ==
    <<"*", "*", "D", "u", "r", "a", "t", "i", "o", "n", ":", "*", "*">>

\*  cantrip
LitCantrip ==
    <<" ", "c", "a", "n", "t", "r", "i", "p">>

\* -level 
LitLevel ==
    <<"-", "l", "e", "v", "e", "l", " ">>

\*  (ritual)
LitRitual ==
    <<" ", "(", "r", "i", "t", "u", "a", "l", ")">>

\* **Casting Time:** 
LitCastingTime ==
    <<"*", "*", "C", "a", "s", "t", "i", "n", "g", " ", "T", "i", "m", "e",
      ":", "*", "*", " ">>

\* **Range
LitRangeAhead ==
    <<"*", "*", "R", "a", "n", "g", "e">>

\* **Range:** 
LitRange ==
    <<"*", "*", "R", "a", "n", "g", "e", ":", "*", "*", " ">>

\* **Component
LitComponentAhead ==
    <<"*", "*", "C", "o", "m", "p", "o", "n", "e", "n", "t">>

\* **Duration
LitDurationAhead ==
    <<"*", "*", "D", "u", "r", "a", "t", "i", "o", "n">>

\* **Duration:** 
LitDuration ==
    <<"*", "*", "D", "u", "r", "a", "t", "i", "o", "n", ":", "*", "*", " ">>

\* Concentration
LitConcentration ==
    <<"C", "o", "n", "c", "e", "n", "t", "r", "a", "t", "i", "o", "n">>

\*  up to 
LitUpTo ==
    <<" ", "u", "p", " ", "t", "o", " ">>

\* gp
LitGp ==
    <<"g", "p">>

\* , which you take when 
LitTakeWhen ==
    <<",", " ", "w", "h", "i", "c", "h", " ", "y", "o", "u", " ", "t", "a",
      "k", "e", " ", "w", "h", "e", "n", " ">>

\* which the spell consumes
LitConsumes ==
    <<"w", "h", "i", "c", "h", " ", "t", "h", "e", " ", "s", "p", "e", "l",
      "l", " ", "c", "o", "n", "s", "u", "m", "e", "s">>

\* Instantaneous
LitInstantaneous ==
    <<"I", "n", "s", "t", "a", "n", "t", "a", "n", "e", "o", "u", "s">>

\* Instant
LitInstant ==
    <<"I", "n", "s", "t", "a", "n", "t">>

\* 1 Bonus Action
LitBonusAction ==
    <<"1", " ", "B", "o", "n", "u", "s", " ", "A", "c", "t", "i", "o", "n">>

\* Bonus
LitBonus ==
    <<"B", "o", "n", "u", "s">>

\* 1 Reaction
LitOneReaction ==
    <<"1", " ", "R", "e", "a", "c", "t", "i", "o", "n">>

\* Reaction
LitReaction ==
    <<"R", "e", "a", "c", "t", "i", "o", "n">>

\* System Reference Document
LitSource ==
    <<"S", "y", "s", "t", "e", "m", " ", "R", "e", "f", "e", "r", "e", "n",
      "c", "e", " ", "D", "o", "c", "u", "m", "e", "n", "t">>

\* \nU+2022 
LitBulletSep ==
    <<"\n", Bullet, " ">>

\* U+2022 
LitBulletHead ==
    <<Bullet, " ">>

\* \n\n
LitBreak ==
    <<"\n", "\n">>

\* one 
LitOne ==
    <<"o", "n", "e", " ">>

\* 1 
LitDigitOne ==
    <<"1", " ">>


\* ------------------------------------------------- regular expressions
\* Each XxxAt(s, i) is the match of the pattern starting exactly at position
\* i, as the backtracking matcher of the re module finds it:
\* [found, start, end, groups...], or NoMatch.

\* a match of a pattern with one group, the text from b to e - 1
Captured(s, i, b, e) ==
    IF e > b
    THEN [found |-> TRUE, start |-> i, end |-> e, g1 |-> SubSeq(s, b, e - 1)]
    ELSE NoMatch

\* the tail "( \(ritual\))?\*" shared by the two level/school patterns;
\* p is the position after the school word
RitualTail(s, p) ==
    IF StartsAt(LitRitual \o <<"*">>, s, p)
    THEN [found |-> TRUE, ritual |-> TRUE, end |-> p + Len(LitRitual) + 1]
    ELSE IF At(s, p) = "*"
    THEN [found |-> TRUE, ritual |-> FALSE, end |-> p + 1]
    ELSE NoMatch

\* re_cantrip_school_ritual: \*(\w+) cantrip( \(ritual\))?\*
\* w is the end of the school word, t the match of the tail
CantripTail(s, i, w, t) ==
    IF t.found
    THEN [found |-> TRUE, start |-> i, end |-> t.end,
          g1 |-> SubSeq(s, i + 1, w - 1), ritual |-> t.ritual]
    ELSE NoMatch
CantripWord(s, i, w) ==
    IF At(s, i) = "*" /\ w > i + 1 /\ StartsAt(LitCantrip, s, w)
    THEN CantripTail(s, i, w, RitualTail(s, w + Len(LitCantrip)))
    ELSE NoMatch
CantripAt(s, i) == CantripWord(s, i, RunEnd(s, i + 1, WordAt))

\* re_lvl_school_ritual: \*(\d)\w\w-level (\w+)( \(ritual\))?\*
\* b and w are the start and the end of the school word
LvlTail(s, i, b, w, t) ==
    IF t.found
    THEN [found |-> TRUE, start |-> i, end |-> t.end,
          g1 |-> <<s[i + 1]>>, g2 |-> SubSeq(s, b, w - 1),
          ritual |-> t.ritual]
    ELSE NoMatch
LvlSchool(s, i, b, w) ==
    IF w > b THEN LvlTail(s, i, b, w, RitualTail(s, w)) ELSE NoMatch
LvlAt(s, i) ==
    IF /\ At(s, i) = "*"
       /\ IsDigit(At(s, i + 1))
       /\ IsWord(At(s, i + 2))
       /\ IsWord(At(s, i + 3))
       /\ StartsAt(LitLevel, s, i + 4)
    THEN LvlSchool(s, i, i + 4 + Len(LitLevel),
                   RunEnd(s, i + 4 + Len(LitLevel), WordAt))
    ELSE NoMatch

\* a label followed by ((?:(?!ahead|\n).)+): the captured text runs to the
\* first line break or the first occurrence of ahead, and is not empty;
\* b is the position after the label
Labelled(s, i, b, ahead) ==
    Captured(s, i, b,
             LET Ok(t, k) == t[k] # "\n" /\ ~StartsAt(ahead, t, k)
             IN  RunEnd(s, b, Ok))

\* re_casting_time: \*\*Casting Time:\*\* ((?:(?!\*\*Range|\n).)+)
CastingTimeAt(s, i) ==
    IF StartsAt(LitCastingTime, s, i)
    THEN Labelled(s, i, i + Len(LitCastingTime), LitRangeAhead)
    ELSE NoMatch

\* re_range: \*\*Range:\*\* ((?:(?!\*\*Component|\n).)+)
RangeAt(s, i) ==
    IF StartsAt(LitRange, s, i)
    THEN Labelled(s, i, i + Len(LitRange), LitComponentAhead)
    ELSE NoMatch

\* re_components: \*\*Components?:?\*\*:? ((?:(?!\*\*Duration|\n).)+)
\* p3 is the position after "Components?:?", p5 the one after "\*\*:?"
ComponentsText(s, i, p5) ==
    IF At(s, p5) = " "
    THEN Labelled(s, i, p5 + 1, LitDurationAhead)
    ELSE NoMatch
ComponentsLabel(s, i, p3) ==
    IF StartsAt(LitComponentAhead, s, i) /\ StartsAt(<<"*", "*">>, s, p3)
    THEN ComponentsText(s, i, Skip(s, p3 + 2, ":"))
    ELSE NoMatch
ComponentsAt(s, i) ==
    ComponentsLabel(s, i,
        Skip(s, Skip(s, i + Len(LitComponentAhead), "s"), ":"))

\* re_duration: \*\*Duration:\*\* ([^\n]+)
DurationAt(s, i) ==
    IF StartsAt(LitDuration, s, i)
    THEN Captured(s, i, i + Len(LitDuration),
                  RunEnd(s, i + Len(LitDuration), NotNewlineAt))
    ELSE NoMatch

\* re_conc_dur: \bConcentration,? up to ([^\n]+)\b
\* the greedy group gives characters back until a word boundary ends it:
\* ends are the boundaries after at least one character of the group
ConcDurEnd(s, i, b, ends) ==
    IF ends = {} THEN NoMatch ELSE Captured(s, i, b, Max(ends))
ConcDurGroup(s, i, b, e) ==
    ConcDurEnd(s, i, b, {k \in (b + 1)..e : IsBoundary(s, k)})
ConcDurUpTo(s, i, p2) ==
    IF /\ StartsAt(LitConcentration, s, i)
       /\ IsBoundary(s, i)
       /\ StartsAt(LitUpTo, s, p2)
    THEN ConcDurGroup(s, i, p2 + Len(LitUpTo),
                      RunEnd(s, p2 + Len(LitUpTo), NotNewlineAt))
    ELSE NoMatch
ConcDurAt(s, i) ==
    ConcDurUpTo(s, i, Skip(s, i + Len(LitConcentration), ","))

\* re_mat_cost: \b(\d+(?:,\d{3})?) ?gp\b
\* d is the end of \d+, n the end of the number, g the start of "gp"
MatCostGp(s, i, n, g) ==
    IF /\ IsDigit(At(s, i))
       /\ IsBoundary(s, i)
       /\ StartsAt(LitGp, s, g)
       /\ IsBoundary(s, g + Len(LitGp))
    THEN [found |-> TRUE, start |-> i, end |-> g + Len(LitGp),
          g1 |-> SubSeq(s, i, n - 1)]
    ELSE NoMatch
MatCostNumber(s, i, n) == MatCostGp(s, i, n, Skip(s, n, " "))
MatCostDigits(s, i, d) ==
    MatCostNumber(s, i,
        IF /\ At(s, d) = ","
           /\ IsDigit(At(s, d + 1))
           /\ IsDigit(At(s, d + 2))
           /\ IsDigit(At(s, d + 3))
        THEN d + 4 ELSE d)
MatCostAt(s, i) == MatCostDigits(s, i, RunEnd(s, i, DigitAt))

\* re_rules_formatted: (\*{1,3})([^*\n]+)\1
\* b is the end of the run of stars at i, e the end of the text after it.
\* The stars open a match only when there are at most 3 of them: with fewer
\* taken the next character is a star, which [^*\n]+ refuses.
StarAt(s, k) == s[k] = "*"
PlainAt(s, k) == s[k] # "*" /\ s[k] # "\n"
RulesFormattedText(s, i, b, e) ==
    IF e > b /\ StartsAt(SubSeq(s, i, b - 1), s, e)
    THEN [found |-> TRUE, start |-> i, end |-> e + (b - i),
          g2 |-> SubSeq(s, b, e - 1)]
    ELSE NoMatch
RulesFormattedStars(s, i, b) ==
    IF At(s, i) = "*" /\ b - i <= 3
    THEN RulesFormattedText(s, i, b, RunEnd(s, b, PlainAt))
    ELSE NoMatch
RulesFormattedAt(s, i) == RulesFormattedStars(s, i, RunEnd(s, i, StarAt))

\* re_rules_formatted.sub(r'\2', s), from position pos on
RECURSIVE SubFormatted(_, _)
SubMatch(s, pos, m) ==
    IF ~m.found THEN SubSeq(s, pos, Len(s))
    ELSE SubSeq(s, pos, m.start - 1) \o m.g2 \o SubFormatted(s, m.end)
SubFormatted(s, pos) == SubMatch(s, pos, SearchFrom(s, pos, RulesFormattedAt))

\* sum over re_mat_cost.finditer(s) of int(c.group(1).replace(',', ''))
RECURSIVE SumCosts(_, _)
SumMatch_First(s, m) ==
    IF ~m.found THEN 0 ELSE ParseInt(RemoveCommas(m.g1))
SumMatch(s, m) ==
    IF ~m.found THEN 0
    ELSE ParseInt(RemoveCommas(m.g1)) + SumCosts(s, m.end)
SumCosts(s, pos) == SumMatch(s, SearchFrom(s, pos, MatCostAt))

\* ------------------------------------------------------------ Spell
\* A Spell object is the function from the names of the attributes it has
\* to their values: hasattr(spell, a) is a \in DOMAIN spell.

HasAttr(sp, a) == a \in DOMAIN sp
SetAttr(sp, a, v) == (a :> v) @@ sp

\* lines 103-106: Spell() with name, source and an empty class list
NewSpell(spell_name) ==
    [name |-> spell_name, source |-> LitSource, classes |-> <<>>]

\* ------------------------------------------- populate_spell_metadata
\* Each step takes the spell and the cursor (the end of the previous match)
\* and gives [ok, spell, end]; ok = FALSE is the RuntimeError of the step.

Failed(what) == [ok |-> FALSE, error |-> what]
Parsed(sp, m) == [ok |-> TRUE, spell |-> sp, end |-> m.end]

\* LevelSchoolOf that never sets ritual
LevelSchoolOf_NoRitual(sp, c, l) ==
    IF c.found
    THEN Parsed(SetAttr(SetAttr(SetAttr(sp,
                    "level", 0),
                    "school", Title(c.g1)),
                    "ritual", FALSE), c)
    ELSE IF l.found
    THEN Parsed(SetAttr(SetAttr(SetAttr(sp,
                    "level", ParseInt(l.g1)),
                    "school", Strip(Title(l.g2))),
                    "ritual", FALSE), l)
    ELSE Failed("level")
\* lines 182-194: level, school and ritual; c and l are the matches of
\* the cantrip and of the leveled pattern
LevelSchoolOf(sp, c, l) ==
    IF c.found
    THEN Parsed(SetAttr(SetAttr(SetAttr(sp,
                    "level", 0),
                    "school", Title(c.g1)),
                    "ritual", c.ritual), c)
    ELSE IF l.found
    THEN Parsed(SetAttr(SetAttr(SetAttr(sp,
                    "level", ParseInt(l.g1)),
                    "school", Strip(Title(l.g2))),
                    "ritual", l.ritual), l)
    ELSE Failed("level")
ParseLevelSchool(sp, meta_str) ==
    LevelSchoolOf(sp, SearchFrom(meta_str, 1, CantripAt),
                      SearchFrom(meta_str, 1, LvlAt))

\* ShortCastTime without lines 206-209
ShortCastTime_Keep(t) == t
\* lines 206-209
ShortCastTime(t) ==
    IF t = LitBonusAction THEN LitBonus
    ELSE IF t = LitOneReaction THEN LitReaction
    ELSE t

\* lines 197-209: casting time
CastingTimeOf(sp, m) ==
    IF ~m.found THEN Failed("casting time")
    ELSE IF Contains(LitTakeWhen, m.g1)
    THEN Parsed(SetAttr(SetAttr(sp,
                    "cast_time",
                    ShortCastTime(Title(SplitFirst(m.g1, <<",">>)))),
                    "rules", m.g1 \o LitBreak), m)
    ELSE Parsed(SetAttr(sp, "cast_time", ShortCastTime(Strip(Title(m.g1)))),
                m)
ParseCastingTime(sp, meta_str, pos) ==
    CastingTimeOf(sp, SearchFrom(meta_str, pos, CastingTimeAt))

\* lines 212-216: range
RangeOf(sp, m) ==
    IF ~m.found THEN Failed("range")
    ELSE Parsed(SetAttr(sp, "range", Strip(Title(m.g1))), m)
\* ParseRange with self.re_range.search(meta_str) at line 212
ParseRange_FromStart(sp, meta_str, pos) ==
    RangeOf(sp, SearchFrom(meta_str, 1, RangeAt))
ParseRange(sp, meta_str, pos) ==
    RangeOf(sp, SearchFrom(meta_str, pos, RangeAt))

\* Costly with the test "cost >= 0"
Costly_Zero(sp, cost) ==
    IF cost >= 0
    THEN SetAttr(SetAttr(sp,
            "material_costly", TRUE),
            "material_cost", FormatInt(cost) \o LitGp)
    ELSE sp
\* lines 237-239
Costly(sp, cost) ==
    IF cost > 0
    THEN SetAttr(SetAttr(sp,
            "material_costly", TRUE),
            "material_cost", FormatInt(cost) \o LitGp)
    ELSE sp
\* lines 240-241
Consumed(sp) ==
    IF Contains(LitConsumes, sp.material_text)
    THEN SetAttr(sp, "material_consumed", TRUE)
    ELSE sp
\* lines 232-243: cost and consumption of the material component
MaterialDetails(sp) ==
    IF ~sp.material THEN sp
    ELSE IF HasAttr(sp, "material_text")
    THEN Consumed(Costly(sp, SumCosts(sp.material_text, 1)))
    ELSE SetAttr(sp, "material_text", <<>>)

\* lines 227-231: the flags, read off the text types
TypeFlags(sp, types) ==
    SetAttr(SetAttr(SetAttr(SetAttr(SetAttr(sp,
        "verbal", Contains(<<"V">>, types)),
        "somatic", Contains(<<"S">>, types)),
        "material", Contains(<<"M">>, types)),
        "material_costly", FALSE),
        "material_consumed", FALSE)
\* lines 223-231: with a "(" the flags are read before it and the clause
\* up to the next ")" is the material text
ComponentFlags(sp, g1) ==
    IF Contains(<<"(">>, g1)
    THEN TypeFlags(SetAttr(sp, "material_text",
                           SplitFirst(SplitSecond(g1, <<"(">>), <<")">>)),
                   SplitFirst(g1, <<"(">>))
    ELSE TypeFlags(sp, g1)

\* lines 219-243: components
ComponentsOf(sp, m) ==
    IF ~m.found THEN Failed("components")
    ELSE Parsed(MaterialDetails(ComponentFlags(sp, m.g1)), m)
ParseComponents(sp, meta_str, pos) ==
    ComponentsOf(sp, SearchFrom(meta_str, pos, ComponentsAt))

\* Python: s.replace(old, new), from position pos on
RECURSIVE Replaced(_, _, _, _)
Replaced(s, old, new, pos) ==
    IF pos > Len(s) THEN <<>>
    ELSE IF StartsAt(old, s, pos)
    THEN new \o Replaced(s, old, new, pos + Len(old))
    ELSE <<s[pos]>> \o Replaced(s, old, new, pos + 1)

\* StandardizeDuration with the result of line 260 assigned
StandardizeDuration_Assigned(sp) ==
    SetAttr(sp, "duration", Replaced(sp.duration, LitOne, LitDigitOne, 1))
\* line 260: spell.duration.replace('one ', '1 ') builds a new string and
\* drops it; the attribute keeps its value
StandardizeDuration(sp) == sp

\* ConcentrationOf without line 255
ConcentrationOf_Unset(sp, g1, conc_match) ==
    IF conc_match.found
    THEN SetAttr(SetAttr(sp,
            "concentration", TRUE),
            "duration", conc_match.g1)
    ELSE SetAttr(sp,
            "duration",
            IF Contains(LitInstantaneous, g1) THEN LitInstant ELSE g1)
\* lines 250-258: concentration, and the duration kept
ConcentrationOf(sp, g1, conc_match) ==
    IF conc_match.found
    THEN SetAttr(SetAttr(sp,
            "concentration", TRUE),
            "duration", conc_match.g1)
    ELSE SetAttr(SetAttr(sp,
            "concentration", FALSE),
            "duration",
            IF Contains(LitInstantaneous, g1) THEN LitInstant ELSE g1)

\* lines 246-260: duration
DurationOf(sp, m) ==
    IF ~m.found THEN Failed("duration")
    ELSE Parsed(StandardizeDuration(
                    ConcentrationOf(sp, m.g1, SearchFrom(m.g1, 1, ConcDurAt))),
                m)
ParseDuration(sp, meta_str, pos) ==
    DurationOf(sp, SearchFrom(meta_str, pos, DurationAt))

\* a step runs from the end of the previous match, unless a step before it
\* has raised
Then(r, meta_str, Step(_, _, _)) ==
    IF r.ok THEN Step(r.spell, meta_str, r.end) ELSE r

\* lines 175-260: the five steps in order
populate_spell_metadata(sp, meta_str) ==
    Then(Then(Then(Then(ParseLevelSchool(sp, meta_str),
        meta_str, ParseCastingTime),
        meta_str, ParseRange),
        meta_str, ParseComponents),
        meta_str, ParseDuration)

\* populate_spell_rules with spell.rules = rule_str at line 170
populate_spell_rules_Unseeded(sp, rule_str) ==
    SetAttr(sp, "rules", SubFormatted(rule_str, 1))
\* lines 161-173
populate_spell_rules(sp, rule_str) ==
    SetAttr(sp, "rules",
            SubFormatted((IF HasAttr(sp, "rules") THEN sp.rules ELSE <<>>)
                            \o rule_str, 1))

\* -------------------------------------------------- create_spell_dict
\* A content item is [t |-> "str", v |-> text], [t |-> "list", v |-> items]
\* or [t |-> "obj"] (anything that is neither a str nor a list: a table).

\* Python: sep.join(parts)
RECURSIVE Join(_, _)
Join(sep, parts) ==
    IF Len(parts) = 0 THEN <<>>
    ELSE IF Len(parts) = 1 THEN parts[1]
    ELSE parts[1] \o sep \o Join(sep, Tail(parts))

\* lines 127-133: every fragment of the list is a str
IsListOfStr(item) == \A k \in 1..Len(item.v) : item.v[k].t = "str"

\* line 137
BulletList(item) ==
    LitBulletHead \o Join(LitBulletSep, [k \in 1..Len(item.v) |-> item.v[k].v])

\* BeforeList without lines 140-141
BeforeList_Keep(buffer) == buffer
\* lines 140-141: before a list, one of the two line breaks that end the
\* buffer is removed
BeforeList(buffer) ==
    IF LastTwo(buffer) = LitBreak THEN DropLast(buffer) ELSE buffer

\* AppendText with the test of lines 143-144 made before line 142
AppendText_SwitchFirst(st, txt, is_list) ==
    [content |-> [st.content EXCEPT
                     ![(IF Contains(DurationMarker, txt) THEN 1
                        ELSE st.segment) + 1] =
                     (IF is_list THEN BeforeList(@) ELSE @) \o txt \o LitBreak],
     segment |-> IF Contains(DurationMarker, txt) THEN 1 ELSE st.segment,
     broke   |-> FALSE]
\* lines 140-144: txt is appended to the buffer of the current segment
AppendText(st, txt, is_list) ==
    [content |-> [st.content EXCEPT ![st.segment + 1] =
                     (IF is_list THEN BeforeList(@) ELSE @) \o txt \o LitBreak],
     segment |-> IF Contains(DurationMarker, txt) THEN 1 ELSE st.segment,
     broke   |-> FALSE]

\* SegmentItem with "continue" in the place of "break"
SegmentItem_NoBreak(st, item) ==
    IF item.t = "obj" \/ (item.t = "list" /\ ~IsListOfStr(item))
    THEN st
    ELSE IF item.t = "list"
    THEN AppendText(st, BulletList(item), TRUE)
    ELSE AppendText(st, item.v, FALSE)
\* lines 115-144, one item of the content loop. st is the loop state:
\* content (the two buffers, content[segment + 1] is Python's
\* content[segment]), segment, and broke once the loop has hit "break".
SegmentItem(st, item) ==
    IF st.broke THEN st
    ELSE IF item.t = "obj" \/ (item.t = "list" /\ ~IsListOfStr(item))
    THEN [st EXCEPT !.broke = TRUE]
    ELSE IF item.t = "list"
    THEN AppendText(st, BulletList(item), TRUE)
    ELSE AppendText(st, item.v, FALSE)

\* lines 113-144: the content loop over all the items
RECURSIVE SegmentFrom(_, _, _)
SegmentFrom(st, items, k) ==
    IF k > Len(items) THEN st
    ELSE SegmentFrom(SegmentItem(st, items[k]), items, k + 1)
SegmentContent(items) ==
    SegmentFrom([content |-> <<(<<>>), (<<>>)>>, segment |-> 0,
                 broke |-> FALSE], items, 1)
\* yes
LitYes ==
    <<"y", "e", "s">>

\* no
LitNo ==
    <<"n", "o">>

\* Unknown
LitUnknown ==
    <<"U", "n", "k", "n", "o", "w", "n">>

\* , 
LitCommaSpace ==
    <<",", " ">>

\* ------------------------------------------------------------ spell.py
\* Spell.to_csv_dict, Spell.from_csv_dict and Spell.to_yaml_dict. A CSV row
\* and a YAML entry are functions from their keys to their values.

\* Python: getattr(sp, a, default)
GetAttr(sp, a, default) == IF HasAttr(sp, a) THEN sp[a] ELSE default
\* YesNo with the text Python gives a bool
YesNo_Bool(b) ==
    IF b THEN <<"T", "r", "u", "e">> ELSE <<"F", "a", "l", "s", "e">>
\* Python: 'yes' if b else 'no'
YesNo(b) == IF b THEN LitYes ELSE LitNo
\* Python: str(n) of an int
PyStr(n) == IF n < 0 THEN <<"-">> \o FormatInt(0 - n) ELSE FormatInt(n)
\* Python: int(s) of the decimal form of an int
PyInt(s) == IF At(s, 1) = "-" THEN 0 - ParseInt(Tail(s)) ELSE ParseInt(s)
\* Python: s.split(sep)
RECURSIVE Split(_, _)
Split(s, sep) ==
    IF Find(sep, s) = 0 THEN <<s>>
    ELSE <<SplitFirst(s, sep)>> \o Split(AfterFirst(s, sep), sep)

\* lines 35-38
csv_headers ==
    <<"level", "name", "school", "classes", "range", "cast_time",
      "duration", "concentration", "ritual", "verbal", "somatic",
      "material", "material_costly", "material_consumed",
      "material_text", "material_cost", "rules", "source">>

\* lines 46-65
to_csv_dict(sp) ==
    [level |-> PyStr(GetAttr(sp, "level", 0 - 1)),
     name |-> GetAttr(sp, "name", "Unknown"),
     school |-> GetAttr(sp, "school", LitUnknown),
     classes |-> Join(LitCommaSpace, GetAttr(sp, "classes", <<>>)),
     range |-> GetAttr(sp, "range", <<>>),
     cast_time |-> GetAttr(sp, "cast_time", <<>>),
     duration |-> GetAttr(sp, "duration", <<>>),
     concentration |-> YesNo(GetAttr(sp, "concentration", FALSE)),
     ritual |-> YesNo(GetAttr(sp, "ritual", FALSE)),
     verbal |-> YesNo(GetAttr(sp, "verbal", FALSE)),
     somatic |-> YesNo(GetAttr(sp, "somatic", FALSE)),
     material |-> YesNo(GetAttr(sp, "material", FALSE)),
     material_costly |-> YesNo(GetAttr(sp, "material_costly", FALSE)),
     material_consumed |-> YesNo(GetAttr(sp, "material_consumed", FALSE)),
     material_text |-> GetAttr(sp, "material_text", <<>>),
     material_cost |-> GetAttr(sp, "material_cost", <<>>),
     rules |-> GetAttr(sp, "rules", <<>>),
     source |-> GetAttr(sp, "source", <<>>)]

\* lines 85-88: the optional attributes are read for a material spell only
FromCsvMaterial(sp, csv_row) ==
    IF ~sp.material THEN sp
    ELSE IF Len(csv_row.material_cost) > 0
    THEN SetAttr(SetAttr(sp, "material_text", csv_row.material_text),
                 "material_cost", csv_row.material_cost)
    ELSE SetAttr(sp, "material_text", csv_row.material_text)

\* lines 71-90, on a new Spell()
from_csv_dict(csv_row) ==
    FromCsvMaterial(
        [level |-> PyInt(csv_row.level),
         name |-> csv_row.name,
         school |-> csv_row.school,
         classes |-> Split(csv_row.classes, LitCommaSpace),
         range |-> csv_row.range,
         cast_time |-> csv_row.cast_time,
         duration |-> csv_row.duration,
         concentration |-> csv_row.concentration = LitYes,
         ritual |-> csv_row.ritual = LitYes,
         verbal |-> csv_row.verbal = LitYes,
         somatic |-> csv_row.somatic = LitYes,
         material |-> csv_row.material = LitYes,
         material_costly |-> csv_row.material_costly = LitYes,
         material_consumed |-> csv_row.material_consumed = LitYes,
         rules |-> csv_row.rules,
         source |-> csv_row.source],
        csv_row)

\* lines 97-99: the wrapper of the rules text
YamlRulesText(text) == [content |-> text]

\* YamlOptional with the default of the CSV form for an absent attribute
YamlOptional_Always(sp, result, a) ==
    SetAttr(result, a, GetAttr(sp, a, <<>>))
\* lines 130-133: the optional attributes, when the spell has them
YamlOptional(sp, result, a) ==
    IF HasAttr(sp, a) THEN SetAttr(result, a, sp[a]) ELSE result

\* lines 113-134
to_yaml_dict(sp) ==
    YamlOptional(sp,
        YamlOptional(sp,
            [level |-> GetAttr(sp, "level", 0 - 1),
             school |-> GetAttr(sp, "school", LitUnknown),
             classes |-> Join(LitCommaSpace, GetAttr(sp, "classes", <<>>)),
             range |-> GetAttr(sp, "range", <<>>),
             cast_time |-> GetAttr(sp, "cast_time", <<>>),
             duration |-> GetAttr(sp, "duration", <<>>),
             concentration |-> GetAttr(sp, "concentration", FALSE),
             ritual |-> GetAttr(sp, "ritual", FALSE),
             verbal |-> GetAttr(sp, "verbal", FALSE),
             somatic |-> GetAttr(sp, "somatic", FALSE),
             material |-> GetAttr(sp, "material", FALSE),
             material_costly |-> GetAttr(sp, "material_costly", FALSE),
             material_consumed |-> GetAttr(sp, "material_consumed", FALSE),
             rules |-> YamlRulesText(GetAttr(sp, "rules", <<>>)),
             source |-> GetAttr(sp, "source", <<>>)],
            "material_text"),
        "material_cost")


\* ---------------------------------------------------- input fragments

\* *3rd-level illusion*
TxtLeveled ==
    <<"*", "3", "r", "d", "-", "l", "e", "v", "e", "l", " ", "i", "l", "l",
      "u", "s", "i", "o", "n", "*">>

\* *Evocation cantrip (ritual)*
TxtCantrip ==
    <<"*", "E", "v", "o", "c", "a", "t", "i", "o", "n", " ", "c", "a", "n",
      "t", "r", "i", "p", " ", "(", "r", "i", "t", "u", "a", "l", ")", "*">>

\* 3rd-level illusion
TxtNoForm ==
    <<"3", "r", "d", "-", "l", "e", "v", "e", "l", " ", "i", "l", "l", "u",
      "s", "i", "o", "n">>

\* **Casting Time:** 1 action
TxtCastAction ==
    <<"*", "*", "C", "a", "s", "t", "i", "n", "g", " ", "T", "i", "m", "e",
      ":", "*", "*", " ", "1", " ", "a", "c", "t", "i", "o", "n">>

\* **Casting Time:** 1 bonus action
TxtCastBonus ==
    <<"*", "*", "C", "a", "s", "t", "i", "n", "g", " ", "T", "i", "m", "e",
      ":", "*", "*", " ", "1", " ", "b", "o", "n", "u", "s", " ", "a", "c",
      "t", "i", "o", "n">>

\* **Casting Time:** 1 reaction, which you take when hit
TxtCastReaction ==
    <<"*", "*", "C", "a", "s", "t", "i", "n", "g", " ", "T", "i", "m", "e",
      ":", "*", "*", " ", "1", " ", "r", "e", "a", "c", "t", "i", "o", "n",
      ",", " ", "w", "h", "i", "c", "h", " ", "y", "o", "u", " ", "t", "a",
      "k", "e", " ", "w", "h", "e", "n", " ", "h", "i", "t">>

\* **Range:** 60 feet
TxtRange ==
    <<"*", "*", "R", "a", "n", "g", "e", ":", "*", "*", " ", "6", "0", " ",
      "f", "e", "e", "t">>

\* **Components:** V, S, M (a pinch of soot)
TxtCompSoot ==
    <<"*", "*", "C", "o", "m", "p", "o", "n", "e", "n", "t", "s", ":", "*",
      "*", " ", "V", ",", " ", "S", ",", " ", "M", " ", "(", "a", " ", "p",
      "i", "n", "c", "h", " ", "o", "f", " ", "s", "o", "o", "t", ")">>

\* **Components:** V, S
TxtCompVS ==
    <<"*", "*", "C", "o", "m", "p", "o", "n", "e", "n", "t", "s", ":", "*",
      "*", " ", "V", ",", " ", "S">>

\* **Components:** V, S (a gesture)
TxtCompNoM ==
    <<"*", "*", "C", "o", "m", "p", "o", "n", "e", "n", "t", "s", ":", "*",
      "*", " ", "V", ",", " ", "S", " ", "(", "a", " ", "g", "e", "s", "t",
      "u", "r", "e", ")">>

\* **Components:** V, M
TxtCompBareM ==
    <<"*", "*", "C", "o", "m", "p", "o", "n", "e", "n", "t", "s", ":", "*",
      "*", " ", "V", ",", " ", "M">>

\* **Components:** V, S, M (a diamond worth 300 gp, which the spell consumes)
TxtCompDiamond ==
    <<"*", "*", "C", "o", "m", "p", "o", "n", "e", "n", "t", "s", ":", "*",
      "*", " ", "V", ",", " ", "S", ",", " ", "M", " ", "(", "a", " ", "d",
      "i", "a", "m", "o", "n", "d", " ", "w", "o", "r", "t", "h", " ", "3",
      "0", "0", " ", "g", "p", ",", " ", "w", "h", "i", "c", "h", " ", "t",
      "h", "e", " ", "s", "p", "e", "l", "l", " ", "c", "o", "n", "s", "u",
      "m", "e", "s", ")">>

\* **Components:** M (gems worth 5 gp and 1,000 gp)
TxtCompGems ==
    <<"*", "*", "C", "o", "m", "p", "o", "n", "e", "n", "t", "s", ":", "*",
      "*", " ", "M", " ", "(", "g", "e", "m", "s", " ", "w", "o", "r", "t",
      "h", " ", "5", " ", "g", "p", " ", "a", "n", "d", " ", "1", ",", "0",
      "0", "0", " ", "g", "p", ")">>

\* **Components:** V, M (a coin worth 0 gp)
TxtCompFree ==
    <<"*", "*", "C", "o", "m", "p", "o", "n", "e", "n", "t", "s", ":", "*",
      "*", " ", "V", ",", " ", "M", " ", "(", "a", " ", "c", "o", "i", "n",
      " ", "w", "o", "r", "t", "h", " ", "0", " ", "g", "p", ")">>

\* **Components:** V, S (incense worth 25 gp)
TxtCompIncense ==
    <<"*", "*", "C", "o", "m", "p", "o", "n", "e", "n", "t", "s", ":", "*",
      "*", " ", "V", ",", " ", "S", " ", "(", "i", "n", "c", "e", "n", "s",
      "e", " ", "w", "o", "r", "t", "h", " ", "2", "5", " ", "g", "p", ")">>

\* **Duration:** Instantaneous
TxtDurInstant ==
    <<"*", "*", "D", "u", "r", "a", "t", "i", "o", "n", ":", "*", "*", " ",
      "I", "n", "s", "t", "a", "n", "t", "a", "n", "e", "o", "u", "s">>

\* **Duration:** Concentration, up to 10 minutes
TxtDurConc ==
    <<"*", "*", "D", "u", "r", "a", "t", "i", "o", "n", ":", "*", "*", " ",
      "C", "o", "n", "c", "e", "n", "t", "r", "a", "t", "i", "o", "n", ",",
      " ", "u", "p", " ", "t", "o", " ", "1", "0", " ", "m", "i", "n", "u",
      "t", "e", "s">>

\* **Duration:** one round
TxtDurRound ==
    <<"*", "*", "D", "u", "r", "a", "t", "i", "o", "n", ":", "*", "*", " ",
      "o", "n", "e", " ", "r", "o", "u", "n", "d">>

\* **Duration:**
TxtDurBare ==
    <<"*", "*", "D", "u", "r", "a", "t", "i", "o", "n", ":", "*", "*">>

\* A *bright* streak.
TxtRules ==
    <<"A", " ", "*", "b", "r", "i", "g", "h", "t", "*", " ", "s", "t", "r",
      "e", "a", "k", ".">>

\* **Fire.** Burns.
TxtBulletA ==
    <<"*", "*", "F", "i", "r", "e", ".", "*", "*", " ", "B", "u", "r", "n",
      "s", ".">>

\* Cold.
TxtBulletB ==
    <<"C", "o", "l", "d", ".">>

\* It ends.
TxtMore ==
    <<"I", "t", " ", "e", "n", "d", "s", ".">>

\* Bard Spells
LabelBard ==
    <<"B", "a", "r", "d", " ", "S", "p", "e", "l", "l", "s">>

\* Bard College
LabelBardCollege ==
    <<"B", "a", "r", "d", " ", "C", "o", "l", "l", "e", "g", "e">>

\* Wizard Spells
LabelWizard ==
    <<"W", "i", "z", "a", "r", "d", " ", "S", "p", "e", "l", "l", "s">>

\* A ***bold** and italic* word.
TxtNested ==
    <<"A", " ", "*", "*", "*", "b", "o", "l", "d", "*", "*", " ", "a", "n",
      "d", " ", "i", "t", "a", "l", "i", "c", "*", " ", "w", "o", "r", "d",
      ".">>

\* 5 gp
TxtGpFive ==
    <<"5", " ", "g", "p">>

\* 1,000 gp
TxtGpThousand ==
    <<"1", ",", "0", "0", "0", " ", "g", "p">>

\* 25gp
TxtGpTight ==
    <<"2", "5", "g", "p">>

\* 10 sp
TxtSilver ==
    <<"1", "0", " ", "s", "p">>

\* **Components:** V, M (gems worth 
TxtCompOpen ==
    <<"*", "*", "C", "o", "m", "p", "o", "n", "e", "n", "t", "s", ":", "*",
      "*", " ", "V", ",", " ", "M", " ", "(", "g", "e", "m", "s", " ", "w",
      "o", "r", "t", "h", " ">>

\*  and 
TxtAnd ==
    <<" ", "a", "n", "d", " ">>

\* , which the spell consumes
TxtWhichConsumes ==
    <<",", " ", "w", "h", "i", "c", "h", " ", "t", "h", "e", " ", "s", "p",
      "e", "l", "l", " ", "c", "o", "n", "s", "u", "m", "e", "s">>

\* )
TxtCompClose ==
    <<")">>

\* *1st-level divination (ritual)*
TxtLeveledRitual ==
    <<"*", "1", "s", "t", "-", "l", "e", "v", "e", "l", " ", "d", "i", "v",
      "i", "n", "a", "t", "i", "o", "n", " ", "(", "r", "i", "t", "u", "a",
      "l", ")", "*">>

\* *necromancy cantrip*
TxtCantripPlain ==
    <<"*", "n", "e", "c", "r", "o", "m", "a", "n", "c", "y", " ", "c", "a",
      "n", "t", "r", "i", "p", "*">>

\* *9th-level CONJURATION*
TxtLeveledUpper ==
    <<"*", "9", "t", "h", "-", "l", "e", "v", "e", "l", " ", "C", "O", "N",
      "J", "U", "R", "A", "T", "I", "O", "N", "*">>

\* **Range:** Self
TxtRangeSelf ==
    <<"*", "*", "R", "a", "n", "g", "e", ":", "*", "*", " ", "S", "e", "l",
      "f">>

\* **Casting Time:** 1 reaction
TxtCastPlainReaction ==
    <<"*", "*", "C", "a", "s", "t", "i", "n", "g", " ", "T", "i", "m", "e",
      ":", "*", "*", " ", "1", " ", "r", "e", "a", "c", "t", "i", "o", "n">>

\* **Casting Time:** 1 minute, which you take when ready
TxtCastTrigger ==
    <<"*", "*", "C", "a", "s", "t", "i", "n", "g", " ", "T", "i", "m", "e",
      ":", "*", "*", " ", "1", " ", "m", "i", "n", "u", "t", "e", ",", " ",
      "w", "h", "i", "c", "h", " ", "y", "o", "u", " ", "t", "a", "k", "e",
      " ", "w", "h", "e", "n", " ", "r", "e", "a", "d", "y">>

\* **Casting Time:** 1 action 
TxtCastPadded ==
    <<"*", "*", "C", "a", "s", "t", "i", "n", "g", " ", "T", "i", "m", "e",
      ":", "*", "*", " ", "1", " ", "a", "c", "t", "i", "o", "n", " ">>

\* **Casting Time:** 1 action, or 8 hours
TxtCastComma ==
    <<"*", "*", "C", "a", "s", "t", "i", "n", "g", " ", "T", "i", "m", "e",
      ":", "*", "*", " ", "1", " ", "a", "c", "t", "i", "o", "n", ",", " ",
      "o", "r", " ", "8", " ", "h", "o", "u", "r", "s">>

\* **Casting Time:** 1 reaction, which you take when *hit*
TxtCastEmph ==
    <<"*", "*", "C", "a", "s", "t", "i", "n", "g", " ", "T", "i", "m", "e",
      ":", "*", "*", " ", "1", " ", "r", "e", "a", "c", "t", "i", "o", "n",
      ",", " ", "w", "h", "i", "c", "h", " ", "y", "o", "u", " ", "t", "a",
      "k", "e", " ", "w", "h", "e", "n", " ", "*", "h", "i", "t", "*">>

\* **Components:** V, See text
TxtCompSee ==
    <<"*", "*", "C", "o", "m", "p", "o", "n", "e", "n", "t", "s", ":", "*",
      "*", " ", "V", ",", " ", "S", "e", "e", " ", "t", "e", "x", "t">>

\* **Duration:** Instantaneous or 1 hour
TxtDurInstantOr ==
    <<"*", "*", "D", "u", "r", "a", "t", "i", "o", "n", ":", "*", "*", " ",
      "I", "n", "s", "t", "a", "n", "t", "a", "n", "e", "o", "u", "s", " ",
      "o", "r", " ", "1", " ", "h", "o", "u", "r">>

\* **Duration:** Concentration, up to one minute
TxtDurConcOne ==
    <<"*", "*", "D", "u", "r", "a", "t", "i", "o", "n", ":", "*", "*", " ",
      "C", "o", "n", "c", "e", "n", "t", "r", "a", "t", "i", "o", "n", ",",
      " ", "u", "p", " ", "t", "o", " ", "o", "n", "e", " ", "m", "i", "n",
      "u", "t", "e">>

\* generating Bane...
MsgGenerating ==
    <<"g", "e", "n", "e", "r", "a", "t", "i", "n", "g", " ", "B", "a", "n",
      "e", ".", ".", ".">>

\* generating Otiluke's Freezing Sphere of Warding...
MsgLong ==
    <<"g", "e", "n", "e", "r", "a", "t", "i", "n", "g", " ", "O", "t", "i",
      "l", "u", "k", "e", "'", "s", " ", "F", "r", "e", "e", "z", "i", "n",
      "g", " ", "S", "p", "h", "e", "r", "e", " ", "o", "f", " ", "W", "a",
      "r", "d", "i", "n", "g", ".", ".", ".">>

\* COMPLETE!
MsgComplete ==
    <<"C", "O", "M", "P", "L", "E", "T", "E", "!">>


\* ------------------------------------------------------ add_class_info

\* ClassName without the split
ClassName_Label(class_label) == class_label
\* line 270: class_label.split(' ')[0]
ClassName(class_label) == SplitFirst(class_label, <<" ">>)

\* AddSpellList that appends to every spell of the dictionary
AddSpellList_Any(sps, class_name, spell_list, k) ==
    [n \in DOMAIN sps |->
        IF k <= Len(spell_list)
        THEN SetAttr(sps[n], "classes", Append(sps[n].classes, class_name))
        ELSE sps[n]]
\* lines 272-274: the names of one spell list, from the k-th on
RECURSIVE AddSpellList(_, _, _, _)
AddSpellList(sps, class_name, spell_list, k) ==
    IF k > Len(spell_list) THEN sps
    ELSE AddSpellList(
            IF spell_list[k] \in DOMAIN sps
            THEN [sps EXCEPT ![spell_list[k]] =
                     SetAttr(@, "classes", Append(@.classes, class_name))]
            ELSE sps,
            class_name, spell_list, k + 1)

\* AddClassSection that makes a spell of every name the section lists
AddClassSection_Create(sps, class_name, class_section, t) ==
    [n \in DOMAIN sps \cup
            UNION {Range(class_section[u].spell_list) :
                      u \in 1..Len(class_section)} |->
        IF n \in DOMAIN sps THEN sps[n] ELSE NewSpell(n)]
\* lines 271-274: the level sections of one class, from the t-th on
RECURSIVE AddClassSection(_, _, _, _)
AddClassSection(sps, class_name, class_section, t) ==
    IF t > Len(class_section) THEN sps
    ELSE AddClassSection(
            AddSpellList(sps, class_name, class_section[t].spell_list, 1),
            class_name, class_section, t + 1)

\* ------------------------------------------------------------- state

VARIABLES
    doc,      \* the JSON document retrieve_json gets: keys (the top-level
              \* nodes it has), spell_data and class_data in dict order
    pc,       \* where parse_spells stands
    i,        \* create_spell_dict: index of the next entry of spell_data
    spell,    \* create_spell_dict: the Spell being built (<<>> when none)
    content,  \* create_spell_dict: the metadata and the rules buffers
    spells,   \* self.spells: spell name -> Spell
    j,        \* add_class_info: index of the next entry of class_data
    calls,    \* how many times each method of parse_spells was entered
    error,    \* the exception parse_spells ended with (<<>> when none)
    printed,  \* the messages printed so far, as <<kind, spell name>>
    simple_spell_dict,  \* dump_yaml: spell name -> YAML entry
    rows,     \* dump_csv: spell name -> the CSV row written for it
    loaded,   \* load_spells_from_csv: spell name -> Spell read from a row
    user_config,      \* Config.user_config
    attr_dot_string,  \* Config.get: its argument
    got,      \* Config.get: how the call ended (<<>> before the call)
    max,      \* ProgressBar.max
    wid,      \* ProgressBar.wid
    cur,      \* ProgressBar.cur
    drawn     \* ProgressBar.draw: the line last printed (<<>> when none)

\* the state outside SRD_5_Extractor.parse_spells
files == <<simple_spell_dict, rows, loaded>>
config == <<user_config, attr_dot_string, got>>
bar == <<max, wid, cur, drawn>>

vars ==
    <<doc, pc, i, spell, content, spells, j, calls, error, printed, files,
      config, bar>>

TopKeys == {"Spellcasting", "Spell Descriptions", "Spell Lists"}
NoSpell == <<>>
NoContent == <<(<<>>), (<<>>)>>
NoError == <<>>
\* Python: None, as a JSON value
None == [t |-> "none"]
\* lines 87-94 and 190-249: the RuntimeErrors, by what was missing
MissingNode == <<"RuntimeError", "node">>
Unparsed(what) == <<"RuntimeError", what>>

\* ParseSpellsEnter without the check of lines 92-94, and with
\* spell_json['Spellcasting'].get('Spell Lists', {}) at line 74
ParseSpellsEnter_Lenient ==
    /\ pc = "start"
    /\ IF {"Spellcasting", "Spell Descriptions"} \subseteq doc.keys
       THEN /\ pc' = "create"
            /\ i' = 1
            /\ calls' = [calls EXCEPT !.create_spell_dict = @ + 1]
            /\ error' = error
       ELSE /\ pc' = "error"
            /\ error' = MissingNode
            /\ UNCHANGED <<i, calls>>
    /\ UNCHANGED <<doc, bar, files, config, spell, content, spells, j, printed>>

\* lines 72-76 with 86-94: retrieve_json checks the three nodes; with all
\* of them there parse_spells calls create_spell_dict
ParseSpellsEnter ==
    /\ pc = "start"
    /\ IF TopKeys \subseteq doc.keys
       THEN /\ pc' = "create"
            /\ i' = 1
            /\ calls' = [calls EXCEPT !.create_spell_dict = @ + 1]
            /\ error' = error
       ELSE /\ pc' = "error"
            /\ error' = MissingNode
            /\ UNCHANGED <<i, calls>>
    /\ UNCHANGED <<doc, bar, files, config, spell, content, spells, j, printed>>

\* Segmented without the test of line 145
Segmented_Unchecked(spell_name, seg, out) ==
    /\ printed' = out
    /\ spell' = NewSpell(spell_name)
    /\ content' = seg.content
    /\ pc' = "meta"
    /\ i' = i

\* lines 145-152: with no duration marker found the entry is skipped;
\* otherwise the spell goes on to populate_spell_metadata
Segmented(spell_name, seg, out) ==
    IF seg.segment = 0
    THEN /\ printed' = Append(out, <<"no duration", spell_name>>)
         /\ i' = i + 1
         /\ UNCHANGED <<pc, spell, content>>
    ELSE /\ printed' = out
         /\ spell' = NewSpell(spell_name)
         /\ content' = seg.content
         /\ pc' = "meta"
         /\ i' = i

\* lines 119-121 and 129-131: the message before a "break"
Warned(spell_name, seg) ==
    IF seg.broke
    THEN Append(printed, <<"non-string node", spell_name>>)
    ELSE printed

\* lines 102-148 for one entry of spell_data
Entity(spell_name, spell_info) ==
    IF "content" \notin DOMAIN spell_info
    THEN /\ printed' = Append(printed, <<"no content", spell_name>>)
         /\ i' = i + 1
         /\ UNCHANGED <<pc, spell, content>>
    ELSE Segmented(spell_name, SegmentContent(spell_info.content),
                   Warned(spell_name, SegmentContent(spell_info.content)))

\* lines 102-148: the next entry of spell_data is skipped (no content
\* node, or no item with the duration marker) or segmented
NextEntity ==
    /\ pc = "create"
    /\ i <= Len(doc.spell_data)
    /\ Entity(doc.spell_data[i].name, doc.spell_data[i].info)
    /\ UNCHANGED <<doc, bar, files, config, spells, j, calls, error>>

\* Metadata with the RuntimeError caught in the loop: the entry is
\* skipped and the loop goes on
Metadata_Continue(r) ==
    IF r.ok
    THEN /\ spell' = r.spell
         /\ pc' = "rules"
         /\ UNCHANGED <<error, i>>
    ELSE /\ pc' = "create"
         /\ i' = i + 1
         /\ UNCHANGED <<error, spell>>

\* line 152 returns or raises
Metadata(r) ==
    IF r.ok
    THEN /\ spell' = r.spell
         /\ pc' = "rules"
         /\ error' = error
         /\ i' = i
    ELSE /\ pc' = "error"
         /\ error' = Unparsed(r.error)
         /\ spell' = spell
         /\ i' = i

\* lines 151-152: a step of populate_spell_metadata that finds no match
\* raises RuntimeError, which nothing in parse_spells catches
PopulateMetadata ==
    /\ pc = "meta"
    /\ Metadata(populate_spell_metadata(spell, Strip(content[1])))
    /\ UNCHANGED <<doc, bar, files, config, content, spells, j, calls, printed>>

\* Insert that keeps the spell the dictionary already has under the name
Insert_KeepFirst(sps, sp) == sps @@ (sp.name :> sp)
\* line 159: self.spells[spell_name] = spell
Insert(sps, sp) == (sp.name :> sp) @@ sps

\* lines 155-159: the rules text, then the spell goes into self.spells
PopulateRules ==
    /\ pc = "rules"
    /\ spells' = Insert(spells, populate_spell_rules(spell, Strip(content[2])))
    /\ spell' = NoSpell
    /\ content' = NoContent
    /\ i' = i + 1
    /\ pc' = "create"
    /\ UNCHANGED <<doc, bar, files, config, j, calls, error, printed>>

\* CreateReturn with the loop left one entry early
CreateReturn_Early ==
    /\ pc = "create"
    /\ i >= Len(doc.spell_data)
    /\ pc' = "classes"
    /\ j' = 1
    /\ calls' = [calls EXCEPT !.add_class_info = @ + 1]
    /\ UNCHANGED <<doc, bar, files, config, i, spell, content, spells, error,
                   printed>>

\* line 76: create_spell_dict has returned, add_class_info is called
CreateReturn ==
    /\ pc = "create"
    /\ i > Len(doc.spell_data)
    /\ pc' = "classes"
    /\ j' = 1
    /\ calls' = [calls EXCEPT !.add_class_info = @ + 1]
    /\ UNCHANGED <<doc, bar, files, config, i, spell, content, spells, error,
                   printed>>

\* lines 269-274: one class label of class_data
AddClassInfo ==
    /\ pc = "classes"
    /\ j <= Len(doc.class_data)
    /\ spells' = AddClassSection(spells,
                                 ClassName(doc.class_data[j].label),
                                 doc.class_data[j].section, 1)
    /\ j' = j + 1
    /\ UNCHANGED <<doc, bar, files, config, pc, i, spell, content, calls, error,
                   printed>>

\* add_class_info and parse_spells return
ParseSpellsReturn ==
    /\ pc = "classes"
    /\ j > Len(doc.class_data)
    /\ pc' = "done"
    /\ UNCHANGED <<doc, bar, files, config, i, spell, content, spells, j, calls,
                   error, printed>>

Next ==
    \/ ParseSpellsEnter
    \/ NextEntity
    \/ PopulateMetadata
    \/ PopulateRules
    \/ CreateReturn
    \/ AddClassInfo
    \/ ParseSpellsReturn

\* ------------------------------------------------- dump and load
\* What follows parse_spells: dump_yaml and dump_csv write the spells out,
\* and load_spells_from_csv of file.py reads the rows back. The csv module
\* is taken to hand each row to the reader as it was written.

\* lines 289-291 of dump_yaml
DumpYaml ==
    /\ pc = "done"
    /\ simple_spell_dict' = [n \in DOMAIN spells |-> to_yaml_dict(spells[n])]
    /\ pc' = "yaml"
    /\ UNCHANGED <<doc, bar, config, i, spell, content, spells, j, calls, error,
                   printed, rows, loaded>>

\* lines 309-312 of dump_csv
DumpCsv ==
    /\ pc = "yaml"
    /\ rows' = [n \in DOMAIN spells |-> to_csv_dict(spells[n])]
    /\ pc' = "csv"
    /\ UNCHANGED <<doc, bar, config, i, spell, content, spells, j, calls, error,
                   printed, simple_spell_dict, loaded>>

\* file.py, lines 47-58: spells[spell.name] = spell for each row
LoadSpellsFromCsv ==
    /\ pc = "csv"
    /\ loaded' = [n \in {rows[m].name : m \in DOMAIN rows} |->
                    from_csv_dict(rows[CHOOSE m \in DOMAIN rows :
                                            rows[m].name = n])]
    /\ pc' = "loaded"
    /\ UNCHANGED <<doc, bar, config, i, spell, content, spells, j, calls, error,
                   printed, simple_spell_dict, rows>>

NextFiles == Next \/ DumpYaml \/ DumpCsv \/ LoadSpellsFromCsv

\* ------------------------------------------------------------ inputs
\* The documents the model runs on. Spell names are dict keys and are
\* never parsed, so they stay whole strings; entry k of spell_data is named
\* SpellNames[k], and AbsentName is a name no entry has.

MaxEntities == 2

SpellNames == <<"Acid Arrow", "Bane", "Chill Touch", "Darkness", "Entangle">>
AbsentName == "Wish"

Str(text) == [t |-> "str", v |-> text]
List(fragments) == [t |-> "list", v |-> fragments]
Table == [t |-> "obj"]
Entry(items) == [content |-> items]
NoContentNode == <<>>

GoodMeta ==
    <<Str(TxtLeveled), Str(TxtCastAction), Str(TxtRange), Str(TxtCompSoot),
      Str(TxtDurInstant)>>
Bullets == List(<<Str(TxtBulletA), Str(TxtBulletB)>>)

\* the entries of the batch documents: two well-formed ones, and one for
\* each way an entry is skipped, truncated or fails
Entries ==
    { Entry(GoodMeta \o <<Str(TxtRules)>>),
      Entry(<<Str(TxtCantrip), Str(TxtCastReaction), Str(TxtRange),
              Str(TxtCompDiamond), Str(TxtDurConc), Str(TxtRules), Bullets>>),
      Entry(<<Str(TxtLeveled), Str(TxtCastAction), Str(TxtRange),
              Str(TxtCompSoot), Str(TxtRules)>>),
      NoContentNode,
      Entry(GoodMeta \o <<Str(TxtRules), Table, Str(TxtMore)>>),
      Entry(<<Str(TxtLeveled), Str(TxtCastAction), Table, Str(TxtRange),
              Str(TxtCompSoot), Str(TxtDurInstant), Str(TxtRules)>>),
      Entry(<<Str(TxtNoForm), Str(TxtCastAction), Str(TxtRange),
              Str(TxtCompSoot), Str(TxtDurInstant), Str(TxtRules)>>) }

Tier(level_label, spell_list) ==
    [level |-> level_label, spell_list |-> spell_list]
Class(class_label, class_section) ==
    [label |-> class_label, section |-> class_section]

\* the group sections: empty; two classes, one listing an absent name; a
\* spell listed twice by one class and by two labels with one first word;
\* a section that lists only the second spell
ClassDatas ==
    { <<>>,
      <<Class(LabelBard, <<Tier("1st Level", <<SpellNames[1], AbsentName>>)>>),
        Class(LabelWizard, <<Tier("1st Level", <<SpellNames[2]>>),
                             Tier("2nd Level", <<SpellNames[1]>>)>>)>>,
      <<Class(LabelBard, <<Tier("Cantrips", <<SpellNames[1]>>),
                           Tier("1st Level", <<SpellNames[1]>>)>>),
        Class(LabelBardCollege, <<Tier("1st Level", <<SpellNames[1]>>)>>)>>,
      <<Class(LabelWizard, <<Tier("Cantrips", <<SpellNames[2]>>)>>)>> }

SpellData(n) ==
    { [k \in 1..n |-> [name |-> SpellNames[k], info |-> f[k]]] :
        f \in [1..n -> Entries] }

\* documents with the three nodes, and documents that lack one of them
WholeDocs ==
    { [keys |-> TopKeys, spell_data |-> sd, class_data |-> cd] :
        sd \in UNION {SpellData(n) : n \in 1..MaxEntities},
        cd \in ClassDatas }
BrokenDocs ==
    { [keys |-> {}, spell_data |-> <<>>, class_data |-> <<>>],
      [keys |-> {"Spellcasting", "Spell Lists"}, spell_data |-> <<>>,
       class_data |-> <<>>] }
    \cup
    { [keys |-> {"Spellcasting", "Spell Descriptions"}, spell_data |-> sd,
       class_data |-> <<>>] : sd \in SpellData(1) }

\* The documents with one entry: every combination of a level line, a
\* casting time, a range, components and a duration (each of the last four
\* possibly missing), and the well-formed metadata with every kind of
\* rules content, an unsupported item before or after the duration.
Opt(texts) == {<<>>} \cup {<<Str(t)>> : t \in texts}
Levels == {TxtLeveled, TxtCantrip, TxtNoForm}
CastingTimes == {TxtCastAction, TxtCastReaction, TxtCastBonus}
Ranges == {TxtRange}
Components ==
    {TxtCompSoot, TxtCompVS, TxtCompNoM, TxtCompBareM, TxtCompDiamond,
     TxtCompGems, TxtCompFree, TxtCompIncense}
Durations == {TxtDurInstant, TxtDurConc, TxtDurRound, TxtDurBare}
RulesItems ==
    { <<Str(TxtRules)>>,
      <<Str(TxtRules), Bullets>>,
      <<Str(TxtRules), Table, Str(TxtMore)>>,
      <<Bullets, List(<<Str(TxtBulletA), Table>>), Str(TxtMore)>> }

MetaEntries ==
    { Entry(<<Str(l)>> \o c \o r \o m \o d \o <<Str(TxtRules), Bullets>>) :
        l \in Levels, c \in Opt(CastingTimes), r \in Opt(Ranges),
        m \in Opt(Components), d \in Opt(Durations) }
RulesEntries ==
    { Entry(<<Str(TxtLeveled), Str(TxtCastAction)>> \o t \o
            <<Str(TxtRange), Str(m), Str(TxtDurInstant)>> \o rs) :
        t \in {<<>>, <<Table>>}, m \in Components, rs \in RulesItems }
\* the well-formed entry under the other forms of the level line
LevelEntries ==
    { Entry(<<Str(l)>> \o Tail(GoodMeta) \o <<Str(TxtRules)>>) :
        l \in {TxtLeveledRitual, TxtCantripPlain, TxtLeveledUpper} }
\* entries whose metadata items are out of their order: the range before
\* the casting time, the components before the range, and a second range
\* before the casting time
OrderEntries ==
    { Entry(<<Str(TxtLeveled), Str(TxtRange), Str(TxtCastAction),
              Str(TxtCompSoot), Str(TxtDurInstant), Str(TxtRules)>>),
      Entry(<<Str(TxtLeveled), Str(TxtCastAction), Str(TxtCompSoot),
              Str(TxtRange), Str(TxtDurInstant), Str(TxtRules)>>),
      Entry(<<Str(TxtLeveled), Str(TxtRangeSelf), Str(TxtCastAction),
              Str(TxtRange), Str(TxtCompSoot), Str(TxtDurInstant),
              Str(TxtRules)>>) }
\* entries whose level line is not alone at the start: after a prose
\* line, followed by a cantrip line, and a prose line in its place
LeadEntries ==
    { Entry(<<Str(TxtMore)>> \o GoodMeta \o <<Str(TxtRules)>>),
      Entry(<<Str(TxtLeveled), Str(TxtCantripPlain)>> \o Tail(GoodMeta) \o
            <<Str(TxtRules)>>),
      Entry(<<Str(TxtMore)>> \o Tail(GoodMeta) \o <<Str(TxtRules)>>) }
\* the well-formed entry under the other forms of the casting time
CastEntries ==
    { Entry(<<Str(TxtLeveled), Str(c)>> \o Tail(Tail(GoodMeta)) \o
            <<Str(TxtRules)>>) :
        c \in {TxtCastPlainReaction, TxtCastTrigger, TxtCastPadded,
               TxtCastComma, TxtCastEmph} }
\* the well-formed entry with a word in the place of a component letter
CompEntries ==
    { Entry(<<Str(TxtLeveled), Str(TxtCastAction), Str(TxtRange),
              Str(TxtCompSee), Str(TxtDurInstant), Str(TxtRules)>>) }
\* the well-formed entry with a duration that starts with "Instantaneous",
\* and with a concentration written with "one"
DurEntries ==
    { Entry(<<Str(TxtLeveled), Str(TxtCastAction), Str(TxtRange),
              Str(TxtCompSoot), Str(d), Str(TxtRules)>>) :
        d \in {TxtDurInstantOr, TxtDurConcOne} }
OneDocs ==
    { [keys |-> TopKeys,
       spell_data |-> <<[name |-> SpellNames[1], info |-> e]>>,
       class_data |-> <<Class(LabelBard,
                           <<Tier("1st Level", <<SpellNames[1]>>)>>)>>] :
        e \in MetaEntries \cup RulesEntries \cup LevelEntries \cup
             OrderEntries \cup LeadEntries \cup CastEntries \cup
             CompEntries \cup DurEntries }

\* no ProgressBar has been made
NoBar == max = 0 /\ wid = 0 /\ cur = 0 /\ drawn = <<>>

\* the state after SRD_5_Extractor() (lines 38-65), for a document d
Constructed(d) ==
    /\ doc = d
    /\ pc = "start"
    /\ i = 0
    /\ spell = NoSpell
    /\ content = NoContent
    /\ spells = <<>>
    /\ j = 0
    /\ calls = [create_spell_dict |-> 0, add_class_info |-> 0]
    /\ error = NoError
    /\ printed = <<>>
    /\ simple_spell_dict = <<>>
    /\ rows = <<>>
    /\ loaded = <<>>
    /\ user_config = None
    /\ attr_dot_string = <<>>
    /\ got = <<>>
    /\ NoBar

Init == \E d \in WholeDocs \cup BrokenDocs : Constructed(d)

Spec == Init /\ [][Next]_vars

\* the runs on the documents with one entry
InitOne == \E d \in OneDocs : Constructed(d)
SpecOne == InitOne /\ [][Next]_vars

\* the runs on one entry, listed by a class or by none, with the spells
\* dumped and loaded again
FileDocs ==
    { [keys |-> TopKeys,
       spell_data |-> <<[name |-> SpellNames[1], info |-> e]>>,
       class_data |-> cd] :
        e \in MetaEntries \cup RulesEntries,
        cd \in {<<>>,
                <<Class(LabelBard, <<Tier("1st Level", <<SpellNames[1]>>)>>),
                  Class(LabelWizard, <<Tier("1st Level", <<SpellNames[1]>>)>>)>>} }
InitFiles == \E d \in FileDocs : Constructed(d)
SpecFiles == InitFiles /\ [][NextFiles]_vars

\* the runs on one well-formed entry whose rules text is any text of
\* emphasis marks and letters up to MaxRulesLen characters, or a sentence
\* with bold inside italic
MaxRulesLen == 6
RECURSIVE MarkedTexts(_)
MarkedTexts(n) ==
    IF n = 0 THEN {<<>>}
    ELSE {Append(s, ch) : s \in MarkedTexts(n - 1), ch \in {"*", "a"}}
RulesTexts ==
    UNION {MarkedTexts(n) : n \in 1..MaxRulesLen} \cup {TxtRules, TxtNested}
RulesDocs ==
    { [keys |-> TopKeys,
       spell_data |-> <<[name |-> SpellNames[1],
                         info |-> Entry(GoodMeta \o <<Str(t)>>)]>>,
       class_data |-> <<Class(LabelBard,
                           <<Tier("1st Level", <<SpellNames[1]>>)>>)>>] :
        t \in RulesTexts }
InitRules == \E d \in RulesDocs : Constructed(d)
SpecRules == InitRules /\ [][Next]_vars

\* the runs on one entry whose material component names up to MaxCosts
\* amounts, in every order, consumed or not
MaxCosts == 3
Amounts == {TxtGpFive, TxtGpThousand, TxtGpTight, TxtSilver}
RECURSIVE AmountLists(_)
AmountLists(n) ==
    IF n = 0 THEN {<<>>}
    ELSE {Append(l, a) : l \in AmountLists(n - 1), a \in Amounts}
CostLists == UNION {AmountLists(n) : n \in 0..MaxCosts}
CostComponents(amounts, consumed) ==
    TxtCompOpen \o Join(TxtAnd, amounts)
        \o (IF consumed THEN TxtWhichConsumes ELSE <<>>) \o TxtCompClose
CostDoc(amounts, consumed) ==
    [keys |-> TopKeys,
     spell_data |-> <<[name |-> SpellNames[1],
                       info |-> Entry(<<Str(TxtLeveled), Str(TxtCastAction),
                                        Str(TxtRange),
                                        Str(CostComponents(amounts, consumed)),
                                        Str(TxtDurInstant), Str(TxtRules)>>)]>>,
     class_data |-> <<Class(LabelBard,
                         <<Tier("1st Level", <<SpellNames[1]>>)>>)>>]
InitCosts ==
    \E amounts \in CostLists, consumed \in BOOLEAN :
        Constructed(CostDoc(amounts, consumed))
SpecCosts == InitCosts /\ [][Next]_vars

\* ----------------------------------------------------------- config.py
\* Config.load and Config.get. A JSON value is [t, v]: t is "dict" (v a
\* function from keys to values), "list", "str", "int", "bool" or "none".

Dict(entries) == [t |-> "dict", v |-> entries]

\* the part of CONFIG_TEMPLATE (config.py, lines 68-275) that the paths of
\* the model reach: template.canvas, template.colors and general

CONFIG_TEMPLATE ==
    Dict(
      \* template
      (<<"t", "e", "m", "p", "l", "a", "t", "e">> :>
        Dict(
          \* canvas
          (<<"c", "a", "n", "v", "a", "s">> :>
            Dict(
              \* w
              (<<"w">> :>
                [t |-> "int", v |-> 822])
              @@ \* h
              (<<"h">> :>
                [t |-> "int", v |-> 1122])))
          @@ \* colors
          (<<"c", "o", "l", "o", "r", "s">> :>
            Dict(
              \* black
              (<<"b", "l", "a", "c", "k">> :>
                Str(<<"#", "0", "0", "0", "0", "0", "0">>))
              @@ \* grey
              (<<"g", "r", "e", "y">> :>
                Str(<<"#", "B", "F", "B", "F", "B", "F">>))))))
      @@ \* general
      (<<"g", "e", "n", "e", "r", "a", "l">> :>
        Dict(
          \* classes
          (<<"c", "l", "a", "s", "s", "e", "s">> :>
            List(<<Str(<<"B", "a", "r", "d">>),
                   Str(<<"C", "l", "e", "r", "i", "c">>),
                   Str(<<"D", "r", "u", "i", "d">>),
                   Str(<<"P", "a", "l", "a", "d", "i", "n">>),
                   Str(<<"R", "a", "n", "g", "e", "r">>),
                   Str(<<"S", "o", "r", "c", "e", "r", "e", "r">>),
                   Str(<<"W", "a", "r", "l", "o", "c", "k">>),
                   Str(<<"W", "i", "z", "a", "r", "d">>)>>))
          @@ \* prevent_large_rule_text
          (<<"p", "r", "e", "v", "e", "n", "t", "_", "l", "a", "r", "g", "e", "_", "r", "u", "l", "e", "_", "t", "e", "x", "t">> :>
            [t |-> "bool", v |-> TRUE])
          @@ \* output_directory
          (<<"o", "u", "t", "p", "u", "t", "_", "d", "i", "r", "e", "c", "t", "o", "r", "y">> :>
            Str(<<"o", "u", "t", "p", "u", "t">>)))))

\* the user configuration files: {}; {"general": {"output_directory": "cards"}}; {"template": {"canvas": 5}}; {"general": null}; {"template": {"canvas": {"w": 100}}, "extra": {"k": "v"}}; {"general": "output_directory"}; ["general"]

UserConfigs ==
    { Dict(<<>>),
      Dict(
        \* general
        (<<"g", "e", "n", "e", "r", "a", "l">> :>
          Dict(
            \* output_directory
            (<<"o", "u", "t", "p", "u", "t", "_", "d", "i", "r", "e", "c", "t", "o", "r", "y">> :>
              Str(<<"c", "a", "r", "d", "s">>))))),
      Dict(
        \* template
        (<<"t", "e", "m", "p", "l", "a", "t", "e">> :>
          Dict(
            \* canvas
            (<<"c", "a", "n", "v", "a", "s">> :>
              [t |-> "int", v |-> 5])))),
      Dict(
        \* general
        (<<"g", "e", "n", "e", "r", "a", "l">> :>
          None)),
      Dict(
        \* template
        (<<"t", "e", "m", "p", "l", "a", "t", "e">> :>
          Dict(
            \* canvas
            (<<"c", "a", "n", "v", "a", "s">> :>
              Dict(
                \* w
                (<<"w">> :>
                  [t |-> "int", v |-> 100])))))
        @@ \* extra
        (<<"e", "x", "t", "r", "a">> :>
          Dict(
            \* k
            (<<"k">> :>
              Str(<<"v">>))))),
      Dict(
        \* general
        (<<"g", "e", "n", "e", "r", "a", "l">> :>
          Str(<<"o", "u", "t", "p", "u", "t", "_", "d", "i", "r", "e", "c", "t", "o", "r", "y">>))),
      List(<<Str(<<"g", "e", "n", "e", "r", "a", "l">>)>>) }

\* the paths asked for

Paths ==
    { <<"g", "e", "n", "e", "r", "a", "l", ".", "o", "u", "t", "p", "u", "t", "_", "d", "i", "r", "e", "c", "t", "o", "r", "y">>,  \* general.output_directory
      <<"t", "e", "m", "p", "l", "a", "t", "e", ".", "c", "a", "n", "v", "a", "s", ".", "w">>,  \* template.canvas.w
      <<"t", "e", "m", "p", "l", "a", "t", "e", ".", "c", "a", "n", "v", "a", "s", ".", "h">>,  \* template.canvas.h
      <<"t", "e", "m", "p", "l", "a", "t", "e", ".", "c", "a", "n", "v", "a", "s", ".", "w", ".", "x">>,  \* template.canvas.w.x
      <<"t", "e", "m", "p", "l", "a", "t", "e", ".", "c", "a", "n", "v", "a", "s">>,  \* template.canvas
      <<"g", "e", "n", "e", "r", "a", "l", ".", "c", "l", "a", "s", "s", "e", "s">>,  \* general.classes
      <<"g", "e", "n", "e", "r", "a", "l", ".", "c", "l", "a", "s", "s", "e", "s", ".", "B", "a", "r", "d">>,  \* general.classes.Bard
      <<"g", "e", "n", "e", "r", "a", "l", ".", "p", "r", "e", "v", "e", "n", "t", "_", "l", "a", "r", "g", "e", "_", "r", "u", "l", "e", "_", "t", "e", "x", "t">>,  \* general.prevent_large_rule_text
      <<"g", "e", "n", "e", "r", "a", "l", ".", "o", "u", "t", "p", "u", "t", "_", "d", "i", "r", "e", "c", "t", "o", "r", "y", ".", "o", "u", "t">>,  \* general.output_directory.out
      <<"e", "x", "t", "r", "a", ".", "k">>,  \* extra.k
      <<"m", "i", "s", "s", "i", "n", "g">>,  \* missing
      <<>>,  \* (empty)
      <<"g", "e", "n", "e", "r", "a", "l", ".", ".", "c", "l", "a", "s", "s", "e", "s">>  \* general..classes
    }

\* how a walk along the keys ends: with the value reached, or with the
\* exception raised on the way
Reached(c) == [raised |-> "", c |-> c]
Raised(exception) == [raised |-> exception]

\* lines 33-36 and 40-43: the loop over attrs from the k-th key on. "attr
\* not in c" raises TypeError on an int or a bool; on a str or a list
\* either it is true, or c.get is missing: AttributeError both ways.
RECURSIVE Follow(_, _, _)
Follow(c, attrs, k) ==
    IF k > Len(attrs) THEN Reached(c)
    ELSE IF c.t = "none" THEN Raised("AttributeError")
    ELSE IF c.t \in {"int", "bool"} THEN Raised("TypeError")
    ELSE IF c.t = "dict" /\ attrs[k] \in DOMAIN c.v
    THEN Follow(c.v[attrs[k]], attrs, k + 1)
    ELSE Raised("AttributeError")

\* lines 44-46: the end of the walk over CONFIG_TEMPLATE
FromTemplate(r) ==
    IF r.raised = "AttributeError" THEN <<"return", None>>
    ELSE IF r.raised = "" THEN <<"return", r.c>>
    ELSE <<"raise", r.raised>>
\* lines 37-46: the end of the walk over the user configuration
FromUser(r, attrs) ==
    IF r.raised = "AttributeError"
    THEN FromTemplate(Follow(CONFIG_TEMPLATE, attrs, 1))
    ELSE IF r.raised = "" THEN <<"return", r.c>>
    ELSE <<"raise", r.raised>>
\* lines 30-46: Config.get with Config.user_config = user
get(user, dot_string) ==
    FromUser(Follow(user, Split(dot_string, <<".">>), 1),
             Split(dot_string, <<".">>))

\* lines 11-18, from main.py, lines 28-29
ConfigLoad ==
    /\ user_config = None
    /\ got = <<>>
    /\ user_config' \in UserConfigs
    /\ UNCHANGED <<doc, bar, pc, i, spell, content, spells, j, calls, error,
                   printed, files, attr_dot_string, got>>

\* lines 20-46
ConfigGet ==
    /\ got = <<>>
    /\ got' = get(user_config, attr_dot_string)
    /\ UNCHANGED <<doc, bar, pc, i, spell, content, spells, j, calls, error,
                   printed, files, user_config, attr_dot_string>>

NextConfig == ConfigLoad \/ ConfigGet

\* the calls of Config.get, with a user configuration loaded or without
InitConfig ==
    /\ doc = [keys |-> {}, spell_data |-> <<>>, class_data |-> <<>>]
    /\ pc = "config"
    /\ i = 0
    /\ spell = NoSpell
    /\ content = NoContent
    /\ spells = <<>>
    /\ j = 0
    /\ calls = [create_spell_dict |-> 0, add_class_info |-> 0]
    /\ error = NoError
    /\ printed = <<>>
    /\ simple_spell_dict = <<>>
    /\ rows = <<>>
    /\ loaded = <<>>
    /\ user_config = None
    /\ attr_dot_string \in Paths
    /\ got = <<>>
    /\ NoBar
SpecConfig == InitConfig /\ [][NextConfig]_vars

\* ---------------------------------------------------------- progbar.py

\* the characters of the bar (line 57), as atoms
Filled == "U+25AE"
Empty == "U+25AF"
\* line 14: the default of char_width; lines 42 and 60: of max_msg_len
CharWidth == 30
MaxMsgLen == 42

\* Python: c * n, for a character c
Repeat(c, n) == IF n <= 0 THEN <<>> ELSE [k \in 1..n |-> c]
\* Python: s.ljust(n)
Ljust(s, n) == s \o Repeat(" ", n - Len(s))
\* Python: s[:n]
Take(s, n) == IF Len(s) <= n THEN s ELSE SubSeq(s, 1, n)
\* math.floor(c / m * 100) and math.ceil(c * (w / m)), for m > 0
Pct(c, m) == (c * 100) \div m
FillWid(c, w, m) == 0 - ((0 - c * w) \div m)

\* lines 53-58: the line draw prints
PctStr(pct) == (IF pct = 0 THEN <<"1">> ELSE PyStr(pct)) \o <<"%">>
Line(fill_wid, emp_wid, pct_str, msg_str) ==
    Repeat(Filled, fill_wid) \o Repeat(Empty, emp_wid) \o <<" ">> \o pct_str
        \o <<" ", " ", " ", " ">> \o msg_str \o <<"\r">>
Drawn(msg, max_msg_len) ==
    Line(FillWid(cur, wid, max), wid - FillWid(cur, wid, max),
         PctStr(Pct(cur, max)), Take(Ljust(msg, max_msg_len), max_msg_len))

\* Clamped without lines 30-31 and 39-40
Clamped_Off(c) == c
\* lines 30-31 and 39-40
Clamped(c) == IF c > max THEN max ELSE c

\* lines 29-31
increment(amt) ==
    /\ cur' = Clamped(cur + amt)
    /\ UNCHANGED <<max, wid>>
\* lines 38-40
reset(current_ct) ==
    /\ cur' = Clamped(current_ct)
    /\ UNCHANGED <<max, wid, drawn, pc, error>>
\* lines 52-58: with max = 0 line 52 raises ZeroDivisionError
draw(msg, max_msg_len) ==
    IF max = 0
    THEN /\ pc' = "error"
         /\ error' = <<"ZeroDivisionError", "draw">>
         /\ drawn' = drawn
    ELSE /\ drawn' = Drawn(msg, max_msg_len)
         /\ error' = error
\* lines 69-70: increment is not reached when draw raises
draw_and_increment(msg, max_msg_len, amt) ==
    /\ draw(msg, max_msg_len)
    /\ IF max = 0
       THEN UNCHANGED <<max, wid, cur>>
       ELSE pc' = pc /\ increment(amt)
\* lines 82-84: draw, then clear
message_and_exit(msg) ==
    /\ draw(msg, MaxMsgLen)
    /\ IF max = 0 THEN TRUE ELSE pc' = "cleared"
    /\ UNCHANGED <<max, wid, cur>>

\* the arguments of the calls
MaxItems == 4
Amts == (0 - 1)..2
Counts == (0 - 1)..(MaxItems + 1)
Msgs == {MsgGenerating, MsgLong, MsgComplete}
\* the least value cur takes in the model
MinCur == 0 - MaxItems

rest == <<doc, i, spell, content, spells, j, calls, printed, files, config>>

Increment ==
    /\ pc = "bar"
    /\ \E amt \in Amts :
          /\ cur + amt >= MinCur
          /\ increment(amt)
    /\ UNCHANGED <<rest, pc, error, drawn>>
Reset ==
    /\ pc = "bar"
    /\ \E current_ct \in Counts : reset(current_ct)
    /\ UNCHANGED rest
Draw ==
    /\ pc = "bar"
    /\ \E msg \in Msgs : draw(msg, MaxMsgLen)
    /\ IF max = 0 THEN TRUE ELSE pc' = pc
    /\ UNCHANGED <<rest, max, wid, cur>>
DrawAndIncrement ==
    /\ pc = "bar"
    /\ \E msg \in Msgs, amt \in Amts :
          /\ cur + amt >= MinCur
          /\ draw_and_increment(msg, MaxMsgLen, amt)
    /\ UNCHANGED rest
MessageAndExit ==
    /\ pc = "bar"
    /\ \E msg \in Msgs : message_and_exit(msg)
    /\ UNCHANGED rest

NextBar == Increment \/ Reset \/ Draw \/ DrawAndIncrement \/ MessageAndExit

\* lines 20-22: the state after ProgressBar(max_items)
InitBar ==
    /\ doc = [keys |-> {}, spell_data |-> <<>>, class_data |-> <<>>]
    /\ pc = "bar"
    /\ i = 0
    /\ spell = NoSpell
    /\ content = NoContent
    /\ spells = <<>>
    /\ j = 0
    /\ calls = [create_spell_dict |-> 0, add_class_info |-> 0]
    /\ error = NoError
    /\ printed = <<>>
    /\ simple_spell_dict = <<>>
    /\ rows = <<>>
    /\ loaded = <<>>
    /\ user_config = None
    /\ attr_dot_string = <<>>
    /\ got = <<>>
    /\ max \in 0..MaxItems
    /\ wid = CharWidth
    /\ cur = 0
    /\ drawn = <<>>
SpecBar == InitBar /\ [][NextBar]_vars

\* ------------------------------------------------------------ claims
\* What the claims say of a document, read off the document itself.

Entities == 1..Len(doc.spell_data)
NameOf(k) == doc.spell_data[k].name
HasContent(k) == "content" \in DOMAIN doc.spell_data[k].info
ItemsOf(k) == doc.spell_data[k].info.content
WholeDoc == TopKeys \subseteq doc.keys
Names == {NameOf(k) : k \in Entities}

\* the item contains the duration marker
Marked(item) ==
    \/ item.t = "str" /\ Contains(DurationMarker, item.v)
    \/ /\ item.t = "list"
       /\ \E f \in 1..Len(item.v) :
            item.v[f].t = "str" /\ Contains(DurationMarker, item.v[f].v)
\* the item is neither a string nor a list of strings
Unsupported(item) ==
    \/ item.t = "obj"
    \/ item.t = "list" /\ \E f \in 1..Len(item.v) : item.v[f].t # "str"

NoMarker(k) ==
    HasContent(k) /\ \A q \in 1..Len(ItemsOf(k)) : ~Marked(ItemsOf(k)[q])
HasUnsupported(k) ==
    HasContent(k) /\ \E q \in 1..Len(ItemsOf(k)) : Unsupported(ItemsOf(k)[q])
\* the items before the first unsupported one
Before(k) ==
    SubSeq(ItemsOf(k), 1,
           Min({q \in 1..Len(ItemsOf(k)) : Unsupported(ItemsOf(k)[q])}) - 1)
MarkerBefore(k) == \E q \in 1..Len(Before(k)) : Marked(Before(k)[q])

\* what populate_spell_metadata gives for entry k, when its content has
\* passed segmentation
Segments(k) == HasContent(k) /\ SegmentContent(ItemsOf(k)).segment = 1
MetaResult(k) ==
    populate_spell_metadata(NewSpell(NameOf(k)),
                            Strip(SegmentContent(ItemsOf(k)).content[1]))
MetaFails(k) == Segments(k) /\ ~MetaResult(k).ok
ParsesAlone(k) == Segments(k) /\ MetaResult(k).ok

\* the record the items give when they are the whole content of an entry
RecordWith(r, seg) ==
    IF r.ok THEN populate_spell_rules(r.spell, Strip(seg.content[2]))
    ELSE NoSpell
RecordFrom(spell_name, seg) ==
    RecordWith(populate_spell_metadata(NewSpell(spell_name),
                                       Strip(seg.content[1])), seg)
RecordOf(spell_name, items) == RecordFrom(spell_name, SegmentContent(items))

\* the records populate_spell_metadata has produced, with their entries
Produced ==
    {<<spells[NameOf(k)], k>> : k \in {q \in Entities : NameOf(q) \in DOMAIN spells}}
    \cup (IF pc = "rules" THEN {<<spell, i>>} ELSE {})

\* the entries of class_data that list the name in one of their tiers
ListedUnder(n) ==
    {c \in 1..Len(doc.class_data) :
        \E t \in 1..Len(doc.class_data[c].section) :
            \E p \in 1..Len(doc.class_data[c].section[t].spell_list) :
                doc.class_data[c].section[t].spell_list[p] = n}
\* the first word of each class label of the documents
TokenOf ==
    (LabelBard :> <<"B", "a", "r", "d">>)
    @@ (LabelBardCollege :> <<"B", "a", "r", "d">>)
    @@ (LabelWizard :> <<"W", "i", "z", "a", "r", "d">>)

\* the components line of entry k, whether it has a parenthesized clause,
\* and the gold pieces its clause names
ComponentsOfEntry(k) ==
    CHOOSE t \in Components : \E q \in 1..Len(ItemsOf(k)) : ItemsOf(k)[q] = Str(t)
WithClause ==
    {TxtCompSoot, TxtCompNoM, TxtCompDiamond, TxtCompGems, TxtCompFree,
     TxtCompIncense}
GoldOf ==
    (TxtCompSoot :> 0) @@ (TxtCompVS :> 0) @@ (TxtCompNoM :> 0)
    @@ (TxtCompBareM :> 0) @@ (TxtCompDiamond :> 300)
    @@ (TxtCompGems :> 1005) @@ (TxtCompFree :> 0) @@ (TxtCompIncense :> 25)

RequiredFields ==
    {"name", "source", "classes", "level", "school", "ritual", "cast_time",
     "range", "verbal", "somatic", "material", "material_costly",
     "material_consumed", "duration", "concentration", "rules"}

C2_State ==
    \A k \in Entities : NoMarker(k) =>
        /\ NameOf(k) \notin DOMAIN spells
        /\ ~(i = k /\ pc \in {"meta", "rules", "error"})
C2_Step ==
    (pc = "create" /\ i \in Entities /\ NoMarker(i)) =>
        /\ pc' = "create"
        /\ i' = i + 1
        /\ error' = NoError
        /\ spells' = spells
        /\ printed'[Len(printed')] = <<"no duration", NameOf(i)>>
C2_NoMarkerSkipped == [](C2_State) /\ [][C2_Step]_vars
C2_Witness ==
    /\ pc = "done"
    /\ Len(doc.spell_data) = 2
    /\ NoMarker(1)
    /\ NameOf(2) \in DOMAIN spells

\* C3 as stated: an entity with an item that is neither a string nor a list
\* of strings, at any position, is not in the collection.
C3_UnsupportedExcluded ==
    \A k \in Entities : HasUnsupported(k) => NameOf(k) \notin DOMAIN spells

\* C3 as amended: the content loop stops at the first unsupported item.
\* When no item before it contains the duration marker the entity is
\* excluded; otherwise the entity is parsed from the items before it alone,
\* and it is in the collection of a batch that completes.
C3_UnsupportedTruncates ==
    \A k \in Entities : HasUnsupported(k) =>
        IF MarkerBefore(k)
        THEN /\ pc = "done" => NameOf(k) \in DOMAIN spells
             /\ NameOf(k) \in DOMAIN spells =>
                    SetAttr(spells[NameOf(k)], "classes", <<>>)
                        = RecordOf(NameOf(k), Before(k))
        ELSE NameOf(k) \notin DOMAIN spells
C3_Witness ==
    /\ pc = "done"
    /\ HasUnsupported(1)
    /\ MarkerBefore(1)
    /\ Len(Before(1)) < Len(ItemsOf(1)) - 1
    /\ NameOf(1) \in DOMAIN spells

\* C4: with a top-level node missing, parse_spells raises before anything
\* is processed: the collection stays empty and neither create_spell_dict
\* nor add_class_info is called.
C4_MissingNodeIsFatal ==
    ~WholeDoc =>
        /\ pc \in {"start", "error"}
        /\ pc = "error" => error = MissingNode
        /\ DOMAIN spells = {}
        /\ calls.create_spell_dict = 0
        /\ calls.add_class_info = 0
        /\ spell = NoSpell
        /\ printed = <<>>
C4_Witness ==
    /\ pc = "error"
    /\ doc.keys = {"Spellcasting", "Spell Descriptions"}
    /\ Len(doc.spell_data) > 0

\* C5: every record of self.spells has all the required fields, in every
\* state; the spell being parsed, or on which parsing stopped, is not in
\* the collection.
C5_RecordsComplete ==
    /\ \A n \in DOMAIN spells :
        RequiredFields \subseteq DOMAIN spells[n] /\ spells[n].name = n
    /\ (pc \in {"meta", "rules", "error"} /\ WholeDoc) =>
        NameOf(i) \notin DOMAIN spells
C5_Witness ==
    /\ pc = "error"
    /\ WholeDoc
    /\ DOMAIN spells # {}

\* C6 as stated: in every run add_class_info runs exactly once.
C6_AnnotatesOnceInEveryRun ==
    pc \in {"done", "error"} => calls.add_class_info = 1

\* C6 as amended: add_class_info is called only when every entry of
\* spell_data has been inserted or excluded, and from then on nothing of
\* create_spell_dict moves; it is called once in a run that completes and
\* not at all in a run that ends with an error.
C6_State ==
    /\ calls.add_class_info >= 1 =>
        /\ i > Len(doc.spell_data)
        /\ pc \in {"classes", "done"}
        /\ calls.add_class_info = 1
        /\ calls.create_spell_dict = 1
    /\ pc = "done" => calls.add_class_info = 1
    /\ pc = "error" => calls.add_class_info = 0
C6_Step ==
    /\ calls.add_class_info >= 1 =>
        /\ i' = i
        /\ spell' = spell
        /\ content' = content
        /\ printed' = printed
        /\ DOMAIN spells' = DOMAIN spells
    /\ (\E n \in DOMAIN spells \cap DOMAIN spells' :
            spells'[n].classes # spells[n].classes)
        => calls.add_class_info = 1 /\ i > Len(doc.spell_data)
C6_AnnotationAfterParsing == [](C6_State) /\ [][C6_Step]_vars
C6_Witness ==
    /\ pc = "done"
    /\ \E n \in DOMAIN spells : spells[n].classes # <<>>
    /\ Cardinality(DOMAIN spells) < Len(doc.spell_data)

\* C7: after add_class_info the classes of a record are exactly the first
\* words of the labels that list its name; a listed name that is no key of
\* the collection raises nothing and adds nothing.
C7_ClassesAreListingTokens ==
    pc = "done" =>
        /\ \A n \in DOMAIN spells :
            Range(spells[n].classes)
                = {TokenOf[doc.class_data[c].label] : c \in ListedUnder(n)}
        /\ DOMAIN spells \subseteq Names
        /\ error = NoError
C7_Witness ==
    /\ pc = "done"
    /\ ListedUnder(AbsentName) # {}
    /\ \E n \in DOMAIN spells : spells[n].classes # <<>>

\* C8: a record whose name no spell list has keeps an empty list of
\* classes, which is present.
C8_UnlistedHasNoClasses ==
    \A n \in DOMAIN spells :
        ListedUnder(n) = {} => HasAttr(spells[n], "classes") /\ spells[n].classes = <<>>
C8_Witness ==
    /\ pc = "done"
    /\ \E n \in DOMAIN spells : ListedUnder(n) = {}
    /\ \E n \in DOMAIN spells : ListedUnder(n) # {}

\* C9: a record that populate_spell_metadata has produced has material_text
\* if and only if material is true.
C9_MaterialTextIffMaterial ==
    \A p \in Produced : HasAttr(p[1], "material_text") <=> p[1].material

\* C10: a record that populate_spell_metadata has produced has material_cost
\* if and only if material_costly is true, which is so exactly when material
\* is true, the components have a parenthesized clause and the gold pieces
\* of the clause sum to more than 0.
C10_MaterialCostIffCostly ==
    \A p \in Produced :
        /\ HasAttr(p[1], "material_cost") <=> p[1].material_costly
        /\ p[1].material_costly <=>
            /\ p[1].material
            /\ ComponentsOfEntry(p[2]) \in WithClause
            /\ GoldOf[ComponentsOfEntry(p[2])] > 0
C10_Witness ==
    /\ pc = "rules"
    /\ HasAttr(spell, "material_cost")
    /\ spell.material_costly

\* the attributes of a record that are booleans
BoolFields ==
    {"concentration", "ritual", "verbal", "somatic", "material",
     "material_costly", "material_consumed"}
OptionalFields == {"material_text", "material_cost"}
\* the classes of a record of the documents of SpecFiles, joined by hand
JoinedClasses(n) ==
    IF ListedUnder(n) = {} THEN <<>>
    ELSE <<"B", "a", "r", "d", ",", " ", "W", "i", "z", "a", "r", "d">>

\* C11: the record that from_csv_dict builds from to_csv_dict(r) equals r
\* in every field, for every record r of the extractor.
C11_CsvRoundTrip ==
    pc = "loaded" =>
        \A n \in DOMAIN spells : n \in DOMAIN loaded /\ loaded[n] = spells[n]

\* C12 as stated: the CSV header has 17 columns, and a row has exactly
\* the header columns as keys, 'yes'/'no' for booleans, the joined class
\* names and the empty string for an absent optional attribute.
C12_Rows ==
    \A n \in DOMAIN rows :
        /\ DOMAIN rows[n] = Range(csv_headers)
        /\ \A a \in BoolFields :
            /\ rows[n][a] \in {LitYes, LitNo}
            /\ rows[n][a] = LitYes <=> spells[n][a]
        /\ rows[n].classes = JoinedClasses(n)
        /\ \A a \in OptionalFields :
            rows[n][a] = IF HasAttr(spells[n], a) THEN spells[n][a] ELSE <<>>
C12_SeventeenColumns == Len(csv_headers) = 17 /\ C12_Rows

\* C12 as amended: the CSV header has 18 distinct columns (the 18 the spec
\* lists); the rest as stated.
C12_EighteenColumns ==
    /\ Len(csv_headers) = 18
    /\ Cardinality(Range(csv_headers)) = 18
    /\ C12_Rows
C12_Witness ==
    /\ pc = "csv"
    /\ \E n \in DOMAIN rows :
        /\ spells[n].classes # <<>>
        /\ spells[n].material
        /\ ~HasAttr(spells[n], "material_cost")
        /\ ~spells[n].concentration

\* C13: the YAML entry of a record has the columns of the CSV form but
\* name, without material_text (material_cost) when the record does not
\* have it, and with the record's value when it does.
C13_YamlFields ==
    \A n \in DOMAIN simple_spell_dict :
        /\ DOMAIN simple_spell_dict[n] =
            (Range(csv_headers) \ ({"name"} \cup OptionalFields))
            \cup {a \in OptionalFields : HasAttr(spells[n], a)}
        /\ \A a \in OptionalFields :
            HasAttr(spells[n], a) => simple_spell_dict[n][a] = spells[n][a]
C13_Witness ==
    /\ pc = "yaml"
    /\ \E n \in DOMAIN simple_spell_dict :
        /\ HasAttr(spells[n], "material_text")
        /\ ~HasAttr(spells[n], "material_cost")

\* C14: the emphasis stripping of populate_spell_rules is idempotent: a
\* second pass over the rules of a record leaves them as they are.
C14_StrippingIdempotent ==
    \A n \in DOMAIN spells : SubFormatted(spells[n].rules, 1) = spells[n].rules

\* the gold pieces each amount of the documents of SpecCosts names, and
\* their sum over a list of amounts
GoldIn ==
    (TxtGpFive :> 5) @@ (TxtGpThousand :> 1000) @@ (TxtGpTight :> 25)
    @@ (TxtSilver :> 0)
RECURSIVE GoldSum(_)
GoldSum(amounts) ==
    IF Len(amounts) = 0 THEN 0
    ELSE GoldIn[Head(amounts)] + GoldSum(Tail(amounts))

\* C15: with material true, material_cost is the decimal sum of the gold
\* amounts of the material text followed by 'gp', whatever the order of
\* the amounts; material_costly is true exactly when the sum is positive
\* and material_consumed exactly when the text has 'which the spell
\* consumes'.
C15_Costs(amounts, consumed) ==
    /\ spell.material
    /\ spell.material_costly <=> GoldSum(amounts) > 0
    /\ GoldSum(amounts) > 0 =>
        /\ HasAttr(spell, "material_cost")
        /\ spell.material_cost = FormatInt(GoldSum(amounts)) \o <<"g", "p">>
    /\ spell.material_consumed <=> consumed
C15_CostIsSumOfAmounts ==
    pc = "rules" =>
        \A amounts \in CostLists, consumed \in BOOLEAN :
            doc = CostDoc(amounts, consumed) => C15_Costs(amounts, consumed)
C15_Witness ==
    /\ pc = "rules"
    /\ doc = CostDoc(<<TxtGpThousand, TxtSilver, TxtGpFive>>, TRUE)
    /\ spell.material_cost = <<"1", "0", "0", "5", "g", "p">>
    /\ spell.material_consumed

\* what each level line of the documents says: the form, the level, the
\* school as it is to be stored and whether the ritual marker is there
LevelFacts ==
    (TxtLeveled :>
        [cantrip |-> FALSE, level |-> 3, ritual |-> FALSE,
         school |-> <<"I", "l", "l", "u", "s", "i", "o", "n">>])
    @@ (TxtCantrip :>
        [cantrip |-> TRUE, level |-> 0, ritual |-> TRUE,
         school |-> <<"E", "v", "o", "c", "a", "t", "i", "o", "n">>])
    @@ (TxtLeveledRitual :>
        [cantrip |-> FALSE, level |-> 1, ritual |-> TRUE,
         school |-> <<"D", "i", "v", "i", "n", "a", "t", "i", "o", "n">>])
    @@ (TxtCantripPlain :>
        [cantrip |-> TRUE, level |-> 0, ritual |-> FALSE,
         school |-> <<"N", "e", "c", "r", "o", "m", "a", "n", "c", "y">>])
    @@ (TxtLeveledUpper :>
        [cantrip |-> FALSE, level |-> 9, ritual |-> FALSE,
         school |-> <<"C", "o", "n", "j", "u", "r", "a", "t", "i", "o", "n">>])

\* the items that are one of the level lines forms, and the level line
\* that applies: the first one of the cantrip form, or with none of that
\* form the first one of the leveled form
LevelLines(items, forms) ==
    {q \in 1..Len(items) : items[q].t = "str" /\ items[q].v \in forms}
CantripForms == {t \in DOMAIN LevelFacts : LevelFacts[t].cantrip}
LevelLine(items) ==
    IF LevelLines(items, CantripForms) # {}
    THEN items[Min(LevelLines(items, CantripForms))].v
    ELSE items[Min(LevelLines(items, DOMAIN LevelFacts))].v

\* C16: a block of the cantrip form gives level 0, a block of the leveled
\* form the level of its digit; the school is the captured word
\* capitalized and ritual is true exactly when the ritual marker is there.
C16_Facts(sp, facts) ==
    /\ sp.level = facts.level
    /\ facts.cantrip => sp.level = 0
    /\ sp.school = facts.school
    /\ sp.ritual = facts.ritual
C16_LevelSchoolRitual ==
    \A p \in Produced :
        /\ LevelLines(ItemsOf(p[2]), DOMAIN LevelFacts) # {}
        /\ C16_Facts(p[1], LevelFacts[LevelLine(ItemsOf(p[2]))])
C16_Witness ==
    /\ pc = "rules"
    /\ ItemsOf(i)[1].v = TxtLeveledRitual
    /\ spell.ritual
    /\ spell.level = 1

\* C17: after create_spell_dict the keys of self.spells are exactly the
\* names of the entries that passed segmentation and metadata parsing, each
\* with the record of its entry; an insertion under a name the collection
\* already has replaces the record stored there and adds no key.
C17_KeysAreParsedNames ==
    /\ pc \in {"classes", "done"} =>
        /\ DOMAIN spells = {NameOf(k) : k \in {q \in Entities : ParsesAlone(q)}}
        /\ \A k \in Entities : ParsesAlone(k) =>
            SetAttr(spells[NameOf(k)], "classes", <<>>)
                = RecordOf(NameOf(k), ItemsOf(k))
    /\ \A n \in DOMAIN spells :
        /\ Insert(spells, NewSpell(n))[n] = NewSpell(n)
        /\ DOMAIN Insert(spells, NewSpell(n)) = DOMAIN spells
        /\ \A m \in DOMAIN spells \ {n} :
            Insert(spells, NewSpell(n))[m] = spells[m]
C17_Witness ==
    /\ pc = "classes"
    /\ j = 1
    /\ Len(doc.spell_data) = 2
    /\ DOMAIN spells = {NameOf(2)}
    /\ ~Segments(1)

\* every key of the path exists in the configuration, and the value there
RECURSIVE Resolves(_, _, _)
Resolves(c, attrs, k) ==
    \/ k > Len(attrs)
    \/ /\ c.t = "dict"
       /\ attrs[k] \in DOMAIN c.v
       /\ Resolves(c.v[attrs[k]], attrs, k + 1)
RECURSIVE ValueAt(_, _, _)
ValueAt(c, attrs, k) ==
    IF k > Len(attrs) THEN c ELSE ValueAt(c.v[attrs[k]], attrs, k + 1)
Preferred(user, attrs) ==
    IF Resolves(user, attrs, 1) THEN ValueAt(user, attrs, 1)
    ELSE IF Resolves(CONFIG_TEMPLATE, attrs, 1)
    THEN ValueAt(CONFIG_TEMPLATE, attrs, 1)
    ELSE None

\* C18: Config.get returns the value at the path in the user
\* configuration when every key of the path exists there, otherwise the
\* value at the path in CONFIG_TEMPLATE, and None when the path is in
\* neither.
C18_GetPrefersUserConfig ==
    got # <<>> =>
        got = <<"return",
                Preferred(user_config, Split(attr_dot_string, <<".">>))>>

\* the items the content loop reads: those before the first unsupported one
Kept(items) ==
    IF \E q \in 1..Len(items) : Unsupported(items[q])
    THEN SubSeq(items, 1,
                Min({q \in 1..Len(items) : Unsupported(items[q])}) - 1)
    ELSE items
FirstMarked(items) == Min({q \in 1..Len(items) : Marked(items[q])})
\* the text of the first n items, each followed by a blank line, a list
\* as its bullets
RECURSIVE Buffered(_, _)
Buffered(items, n) ==
    IF n = 0 THEN <<>>
    ELSE IF items[n].t = "list"
    THEN BeforeList(Buffered(items, n - 1)) \o BulletList(items[n]) \o LitBreak
    ELSE Buffered(items, n - 1) \o items[n].v \o LitBreak
BufferOf(items) == Buffered(items, Len(items))
\* the two buffers when the first m items go to the metadata
SplitAt(items, m) ==
    <<BufferOf(SubSeq(items, 1, m)), BufferOf(SubSeq(items, m + 1, Len(items)))>>

\* C19 as stated: the items strictly before the first item with the
\* duration marker go to the metadata buffer, that item and every item
\* after it go to the rules buffer.
C19_MarkerItemStartsRules ==
    pc = "meta" =>
        content = SplitAt(Kept(ItemsOf(i)), FirstMarked(Kept(ItemsOf(i))) - 1)

\* C19: the items up to and including the first item with the duration
\* marker go to the metadata buffer, and every item after it goes to the
\* rules buffer.
C19_MarkerItemEndsMetadata ==
    pc = "meta" =>
        content = SplitAt(Kept(ItemsOf(i)), FirstMarked(Kept(ItemsOf(i))))
\* an entry with items before the marked one and a list after it
C19_Witness ==
    /\ pc = "meta"
    /\ FirstMarked(Kept(ItemsOf(i))) > 1
    /\ \E q \in FirstMarked(Kept(ItemsOf(i))) + 1..Len(Kept(ItemsOf(i))) :
            Kept(ItemsOf(i))[q].t = "list"
    /\ content[2] # <<>>

\* the four fields after the level line, in the order they are parsed
FieldStep(k, sp, s, pos) ==
    CASE k = 1 -> ParseCastingTime(sp, s, pos)
      [] k = 2 -> ParseRange(sp, s, pos)
      [] k = 3 -> ParseComponents(sp, s, pos)
      [] k = 4 -> ParseDuration(sp, s, pos)
FieldLabel(k) ==
    CASE k = 1 -> LitCastingTime
      [] k = 2 -> LitRange
      [] k = 3 -> LitComponentAhead
      [] k = 4 -> DurationMarker
FieldName(k) ==
    CASE k = 1 -> "casting time"
      [] k = 2 -> "range"
      [] k = 3 -> "components"
      [] k = 4 -> "duration"
\* the result of populate_spell_metadata after field k (0: the level line)
FieldFrom(r, s, k) == IF r.ok THEN FieldStep(k, r.spell, s, r.end) ELSE r
RECURSIVE UpTo(_, _, _)
UpTo(sp, s, k) ==
    IF k = 0 THEN ParseLevelSchool(sp, s)
    ELSE FieldFrom(UpTo(sp, s, k - 1), s, k)
\* s with every character before pos replaced by a space
Blanked(s, pos) == [p \in 1..Len(s) |-> IF p < pos THEN " " ELSE s[p]]
LabelFrom(s, pos, label) == \E p \in pos..Len(s) : StartsAt(label, s, p)
\* field k, searched after the result prev of the field before it
C20_Field(prev, s, k) ==
    prev.ok =>
        /\ FieldStep(k, prev.spell, s, prev.end)
             = FieldStep(k, prev.spell, Blanked(s, prev.end), 1)
        /\ FieldStep(k, prev.spell, s, prev.end).ok
             => FieldStep(k, prev.spell, s, prev.end).end >= prev.end
        /\ ~LabelFrom(s, prev.end, FieldLabel(k))
             => FieldStep(k, prev.spell, s, prev.end) = Failed(FieldName(k))
C20_Fields(sp, s) == \A k \in 1..4 : C20_Field(UpTo(sp, s, k - 1), s, k)
\* the metadata text of the entry being parsed
MetaStr == Strip(content[1])

\* C20: in populate_spell_metadata the search for each of casting time,
\* range, components and duration starts at the end of the match of the
\* field before it: what it finds depends on nothing before that end, its
\* match ends at or after it, and a field whose label occurs only before
\* it is not found.
C20_SearchStartsAtPreviousEnd ==
    pc \in {"rules", "error"} /\ content # NoContent =>
        C20_Fields(NewSpell(NameOf(i)), MetaStr)
\* the range label stands only before the casting time, and the range is
\* not found
C20_Witness ==
    /\ pc = "error"
    /\ error = Unparsed("range")
    /\ LabelFrom(MetaStr, 1, LitRange)
    /\ UpTo(NewSpell(NameOf(i)), MetaStr, 1).ok
    /\ ~LabelFrom(MetaStr, UpTo(NewSpell(NameOf(i)), MetaStr, 1).end, LitRange)

\* exactly one of the two forms of the level line matches at the start
OneFormAtStart(s) == CantripAt(s, 1).found # LvlAt(s, 1).found

\* C21: the level, school and ritual extraction accepts a metadata block
\* only when exactly one of the cantrip form and the leveled form matches
\* at the start of the block; every other block ends in the RuntimeError
\* of the level line.
C21_LevelLineAtStart ==
    pc \in {"rules", "error"} /\ content # NoContent =>
        \/ OneFormAtStart(MetaStr)
        \/ pc = "error" /\ error = Unparsed("level")

\* the text after the casting time label, in the first item that has it
CastItem(items) ==
    items[Min({q \in 1..Len(items) :
                  items[q].t = "str" /\ StartsAt(LitCastingTime, items[q].v, 1)})]
CastText(items) ==
    SubSeq(CastItem(items).v, Len(LitCastingTime) + 1, Len(CastItem(items).v))
UpToComma(t) == SubSeq(t, 1, Min({k \in 1..Len(t) : t[k] = ","}) - 1)
Shortened(t) ==
    IF t = LitBonusAction THEN LitBonus
    ELSE IF t = LitOneReaction THEN LitReaction
    ELSE t
C22_Cast(sp, g1) ==
    IF Contains(LitTakeWhen, g1)
    THEN /\ sp.cast_time = Shortened(Title(UpToComma(g1)))
         /\ HasAttr(sp, "rules")
         /\ sp.rules = g1 \o <<"\n", "\n">>
    ELSE /\ sp.cast_time = Shortened(Strip(Title(g1)))
         /\ ~HasAttr(sp, "rules")

\* C22: when the captured casting time contains ', which you take when ',
\* cast_time is the title-cased text before the first comma and the whole
\* captured text starts the rules; otherwise cast_time is the title-cased
\* captured text and the rules are not set. In both cases '1 Bonus Action'
\* becomes 'Bonus' and '1 Reaction' becomes 'Reaction'.
C22_CastingTime ==
    pc = "rules" => C22_Cast(spell, CastText(ItemsOf(i)))
\* a reaction with its trigger has been parsed
C22_Witness ==
    /\ pc = "rules"
    /\ Contains(LitTakeWhen, CastText(ItemsOf(i)))
    /\ spell.cast_time = LitReaction
    /\ spell.rules = CastText(ItemsOf(i)) \o <<"\n", "\n">>

\* the rules text the casting time has left on the spell, if any
Seeded(sp) == IF HasAttr(sp, "rules") THEN sp.rules ELSE <<>>

\* C23: populate_spell_rules always succeeds, and leaves as the rules of
\* the record the emphasis stripping, in one pass, of the text the casting
\* time has put there (none: the empty text) followed by the rules block.
C23_RulesAreStrippedWhole ==
    [][pc = "rules" =>
        /\ pc' = "create"
        /\ error' = NoError
        /\ spell.name \in DOMAIN spells'
        /\ spells'[spell.name].rules
             = SubFormatted(Seeded(spell) \o Strip(content[2]), 1)]_vars
\* a record whose rules start with the trigger of its casting time, the
\* emphasis of the trigger removed
C23_Witness ==
    /\ pc = "create"
    /\ NameOf(1) \in DOMAIN spells
    /\ Contains(<<"*">>, CastText(ItemsOf(1)))
    /\ Contains(LitTakeWhen, spells[NameOf(1)].rules)
    /\ ~Contains(<<"*">>, spells[NameOf(1)].rules)
    /\ Len(spells[NameOf(1)].rules) > Len(CastText(ItemsOf(1)))

\* the text after the components label, in the first item that has it
CompItem(items) ==
    items[Min({q \in 1..Len(items) :
                  items[q].t = "str" /\ StartsAt(LitComponentAhead, items[q].v, 1)})]
CompText(items) == AfterFirst(CompItem(items).v, <<"*", "*", " ">>)
\* the text the flags are read from
FlagText(g1) == SplitFirst(g1, <<"(">>)
\* the letter c stands in t as a token of its own
HasToken(t, c) ==
    \E k \in 1..Len(t) :
        t[k] = c /\ ~IsWord(At(t, k - 1)) /\ ~IsWord(At(t, k + 1))
C24_Flags(sp, g1) ==
    /\ sp.verbal = HasToken(FlagText(g1), "V")
    /\ sp.somatic = HasToken(FlagText(g1), "S")
    /\ sp.material = HasToken(FlagText(g1), "M")
    /\ sp.material /\ ~Contains(<<"(">>, g1) =>
          /\ sp.material_text = <<>>
          /\ ~sp.material_costly
          /\ ~sp.material_consumed

\* C24: verbal, somatic and material are true exactly when V, S and M
\* stand as tokens of their own in the flag text (the captured text before
\* its first '(', or all of it); with material true and no parenthesized
\* clause material_text is empty and material_costly and material_consumed
\* are false.
C24_ComponentFlags ==
    pc = "rules" => C24_Flags(spell, CompText(ItemsOf(i)))

\* the text after the duration label, in the first item that has it
DurItem(items) ==
    items[Min({q \in 1..Len(items) :
                  items[q].t = "str" /\ StartsAt(LitDuration, items[q].v, 1)})]
DurText(items) ==
    SubSeq(DurItem(items).v, Len(LitDuration) + 1, Len(DurItem(items).v))
C25_Kept(sp, g1, conc_match) ==
    IF conc_match.found
    THEN sp.concentration /\ sp.duration = conc_match.g1
    ELSE /\ ~sp.concentration
         /\ sp.duration = (IF g1 = LitInstantaneous THEN LitInstant ELSE g1)

\* C25: when the captured duration contains the concentration pattern,
\* concentration is true and duration is the text the pattern captures;
\* otherwise concentration is false and duration is the whole captured
\* text, except that the captured text 'Instantaneous' becomes 'Instant'.
C25_Duration ==
    pc = "rules" =>
        C25_Kept(spell, DurText(ItemsOf(i)),
                 SearchFrom(DurText(ItemsOf(i)), 1, ConcDurAt))

\* the duration lines 250-257 store, before the replacement of line 260
StoredDuration(g1, conc_match) ==
    IF conc_match.found THEN conc_match.g1
    ELSE IF Contains(LitInstantaneous, g1) THEN LitInstant
    ELSE g1

RECURSIVE BulletLines(_, _)
BulletLines(fragments, k) ==
    <<Bullet, " ">> \o fragments[k].v \o
    (IF k < Len(fragments) THEN <<"\n">> \o BulletLines(fragments, k + 1)
     ELSE <<>>)
\* item q is a list that follows a prose item in the same buffer
ListAfterProse(items, q) ==
    /\ q > 1
    /\ items[q].t = "list"
    /\ items[q - 1].t = "str"
    /\ q - 1 # FirstMarked(items)
BufferWith(items, q) ==
    IF q <= FirstMarked(items) THEN content[1] ELSE content[2]
C27_List(items, q) ==
    /\ Contains(items[q - 1].v \o <<"\n">> \o BulletLines(items[q].v, 1)
                    \o <<"\n", "\n">>,
                BufferWith(items, q))
    /\ ~Contains(items[q - 1].v \o <<"\n", "\n", Bullet>>, BufferWith(items, q))

\* C27: a list item is appended as one bullet-prefixed line for each of
\* its elements, joined by line breaks; when it follows a prose item in
\* the same buffer, one of the two line breaks after the prose is removed,
\* so that exactly one remains before the first bullet.
C27_ListAfterProse ==
    pc = "meta" =>
        \A q \in 1..Len(Kept(ItemsOf(i))) :
            ListAfterProse(Kept(ItemsOf(i)), q) => C27_List(Kept(ItemsOf(i)), q)
\* a list follows a prose item of the rules buffer
C27_Witness ==
    /\ pc = "meta"
    /\ \E q \in 1..Len(Kept(ItemsOf(i))) :
            /\ ListAfterProse(Kept(ItemsOf(i)), q)
            /\ q > FirstMarked(Kept(ItemsOf(i)))
            /\ Len(Kept(ItemsOf(i))[q].v) > 1

\* no element occurs twice in the sequence
NoRepeat(seq) ==
    \A a, b \in 1..Len(seq) : a # b => seq[a] # seq[b]

\* C28: after add_class_info no group name occurs more than once in the
\* classes of a record, also when its name is listed under several tiers
\* of one group or under two labels with the same first word.
C28_ClassesHaveNoRepeats ==
    pc = "done" => \A n \in DOMAIN spells : NoRepeat(spells[n].classes)

\* the record b is the record a but for its classes
SameButClasses(a, b) ==
    /\ DOMAIN a = DOMAIN b
    /\ \A f \in DOMAIN a \ {"classes"} : a[f] = b[f]

\* C29: add_class_info changes nothing but the classes of the records
\* there are: every step of it leaves the keys of the collection as they
\* are (no record for a name only the group section has, none removed)
\* and every other field of every record as it is.
C29_OnlyClassesChange ==
    [][pc = "classes" =>
        /\ DOMAIN spells' = DOMAIN spells
        /\ \A n \in DOMAIN spells : SameButClasses(spells[n], spells'[n])]_vars
\* a section that lists a name with no record, and a record whose classes
\* have changed
C29_Witness ==
    /\ pc = "done"
    /\ \E c \in 1..Len(doc.class_data) :
         \E u \in 1..Len(doc.class_data[c].section) :
            AbsentName \in Range(doc.class_data[c].section[u].spell_list)
    /\ AbsentName \notin DOMAIN spells
    /\ \E n \in DOMAIN spells : spells[n].classes # <<>>

\* a call of increment, reset or draw_and_increment with arguments that
\* are not negative
NonNegativeCall ==
    \E amt \in Amts, current_ct \in Counts, msg \in Msgs :
        /\ amt >= 0
        /\ current_ct >= 0
        /\ \/ increment(amt)
           \/ reset(current_ct)
           \/ draw_and_increment(msg, MaxMsgLen, amt)
\* draw_and_increment with an amount that is not negative adds it to cur,
\* up to max
AddsUpToMax ==
    \A amt \in Amts, msg \in Msgs :
        amt >= 0 /\ draw_and_increment(msg, MaxMsgLen, amt) =>
            cur' = (IF cur + amt > max THEN max ELSE cur + amt)

\* C30: on a bar made with max_items = m, cur never exceeds m, whatever
\* the arguments of increment and reset; calls with arguments that are
\* not negative keep 0 <= cur <= m, and draw_and_increment then raises
\* cur by exactly amt, or to m when that would pass m.
C30_CurWithinMax ==
    /\ [](cur <= max)
    /\ [][cur >= 0 /\ NonNegativeCall => 0 <= cur' /\ cur' <= max]_vars
    /\ [][cur >= 0 => AddsUpToMax]_vars
\* draw_and_increment has taken cur to max from below, the bar drawn
\* before it not full
C30_Witness ==
    /\ pc = "bar"
    /\ max > 1
    /\ cur = max
    /\ drawn # <<>>
    /\ drawn[wid] = Empty
====
